---------------------------- MODULE Spec2Model ----------------------------
(***************************************************************************)
(* McSplit for K >= 2 graphs (src/mcsp.cc): the multi-domain branch and     *)
(* bound search, its helper pool, the shared incumbent and the timeout.     *)
(*                                                                          *)
(* Arrays keep the source's 0-based indices: a C array of length n is a     *)
(* function with domain 0..n-1.  The two vectors that the code only pushes  *)
(* to and pops from (current, domains) are sequences; an index into         *)
(* `domains` (bd_idx) keeps its 0-based value and is shifted on access.     *)
(***************************************************************************)
EXTENDS Integers, Sequences, FiniteSets, TLC

(***************************************************************************)
(* Program constants                                                        *)
(***************************************************************************)
split_levels == 4
INT_MAX == 2147483647
TwoTo16 == 65536

(***************************************************************************)
(* Bounds of the model                                                      *)
(***************************************************************************)
\* largest vertex count of an input graph in the exhaustive two-graph family
MaxN == 3
\* largest number of helper workers (arguments.threads - 1)
MaxHelpers == 1

VARIABLES
    arguments,      \* struct args: arg_num, connected, directed, edge_labelled,
                    \*              big_first, heuristic, threads, timeout
    stable_sort_ties,       \* what the build's std::stable_sort does with the
                    \* comparator >=, which is no strict weak ordering
    gi,             \* the graphs as read by readGraph
    vvi,            \* start(): per graph, the vertices by descending degree
    gi_sorted,      \* start(): the graphs mcs() works on
    abort_due_to_timeout,   \* std::atomic<bool>
    aborted,        \* start(): set by the timer thread when the deadline elapsed
    timeout_thread, \* position of the timer thread
    global_position,        \* atomic<int>
    global_incumbent,       \* AtomicIncumbent::value
    incumbent,      \* mcs(): the mapping it returns
    per_thread_incumbents,  \* thread -> mapping
    tasks,          \* HelpMe::tasks: Position -> Task
    finish,         \* HelpMe::finish
    stack,          \* thread -> its call stack, innermost frame last
    thread_current, \* thread -> the `current` vector its frames share
    thread_vv,      \* thread -> the vertex buffers its frames share
    solution_first, \* start(): the mapping returned by mcs(), remapped
    assert_failed   \* assert(r.second) of get_help_with failed

Idx(n) == 0 .. (n - 1)
NG == Idx(arguments.arg_num)

Min(S) == CHOOSE m \in S : \A x \in S : m <= x
Max(S) == CHOOSE m \in S : \A x \in S : m >= x

\* int arithmetic of the build: two's complement, 32 bits, kept as four
\* bytes so that no intermediate value leaves the 32-bit range
Bytes(x) == [i \in 0 .. 3 |-> (x \div (256 ^ i)) % 256]

Carry(cols) ==
    LET d0 == cols[0]
        d1 == cols[1] + d0 \div 256
        d2 == cols[2] + d1 \div 256
        d3 == cols[3] + d2 \div 256
    IN [i \in 0 .. 3 |-> CASE i = 0 -> d0 % 256 [] i = 1 -> d1 % 256
                            [] i = 2 -> d2 % 256 [] OTHER -> d3 % 256]

FromBytes(b) ==
    (IF b[3] >= 128 THEN b[3] - 256 ELSE b[3]) * 16777216 + b[2] * 65536 + b[1] * 256 + b[0]

IntAdd(x, y) ==
    LET a == Bytes(x) b == Bytes(y)
    IN FromBytes(Carry([i \in 0 .. 3 |-> a[i] + b[i]]))

IntMul(x, y) ==
    LET a == Bytes(x) b == Bytes(y)
    IN FromBytes(Carry([k \in 0 .. 3 |->
            CASE k = 0 -> a[0] * b[0]
              [] k = 1 -> a[0] * b[1] + a[1] * b[0]
              [] k = 2 -> a[0] * b[2] + a[1] * b[1] + a[2] * b[0]
              [] OTHER -> a[0] * b[3] + a[1] * b[2] + a[2] * b[1] + a[3] * b[0]]))

RECURSIVE accumulate(_, _, _, _)
\* std::accumulate(first, first+n, init, op) over an int array, in int
accumulate(arr, n, init, mul) ==
    IF n = 0 THEN init
    ELSE LET a == accumulate(arr, n - 1, init, mul) IN
         IF mul THEN IntMul(a, arr[n - 1]) ELSE IntAdd(a, arr[n - 1])

(***************************************************************************)
(* Graph (graph.hh, graph.c)                                                *)
(***************************************************************************)
Graph(n) ==
    [n |-> n,
     adjmat |-> [v \in Idx(n) |-> [w \in Idx(n) |-> 0]],
     label |-> [v \in Idx(n) |-> 0]]

RECURSIVE BitOr(_, _)
\* a | b on non-negative words
BitOr(a, b) ==
    IF a = 0 THEN b
    ELSE IF b = 0 THEN a
    ELSE (IF a % 2 = 1 \/ b % 2 = 1 THEN 1 ELSE 0) + 2 * BitOr(a \div 2, b \div 2)

\* An unsigned word is kept as the int with the same 32 bits, so
\* 1u << 31 is the sign: or-ing it into a label makes the label negative.
add_edge(g, v, w, directed, val) ==
    IF v # w
    THEN IF directed
         THEN [g EXCEPT !.adjmat[v][w] = BitOr(@, val),
                        !.adjmat[w][v] = BitOr(@, val * TwoTo16)]
         ELSE [g EXCEPT !.adjmat[v][w] = val, !.adjmat[w][v] = val]
    ELSE [g EXCEPT !.label[v] = IF @ >= 0 THEN (@ - INT_MAX) - 1 ELSE @]

\* induced_subgraph that permutes the adjacency matrix and leaves the labels
\* where they were
induced_subgraph_labels_kept(g, vv) ==
    LET n == Cardinality(DOMAIN vv) IN
    [n |-> n,
     adjmat |-> [i \in Idx(n) |-> [j \in Idx(n) |-> g.adjmat[vv[i]][vv[j]]]],
     label |-> [i \in Idx(n) |-> g.label[i]]]

induced_subgraph(g, vv) ==
    LET n == Cardinality(DOMAIN vv) IN
    [n |-> n,
     adjmat |-> [i \in Idx(n) |-> [j \in Idx(n) |-> g.adjmat[vv[i]][vv[j]]]],
     label |-> [i \in Idx(n) |-> g.label[vv[i]]]]

(***************************************************************************)
(* MCS functions                                                            *)
(***************************************************************************)
Multidomain(sets, len, adj) == [sets |-> sets, len |-> len, is_adjacent |-> adj]

check_sol(g, solution) ==
    \A i \in 1 .. Len(solution) : \A ng \in NG \ {0} :
        /\ g[0].label[solution[i][0]] = g[ng].label[solution[i][ng]]
        /\ \A j \in (i + 1) .. Len(solution) :
              g[0].adjmat[solution[i][0]][solution[j][0]]
                = g[ng].adjmat[solution[i][ng]][solution[j][ng]]

\* calc_bound that stops after the first multi-domain
calc_bound_first_only(domains) ==
    IF domains = << >> THEN 0 ELSE Min({Head(domains).len[i] : i \in NG})

RECURSIVE calc_bound(_)
calc_bound(domains) ==
    IF domains = << >> THEN 0
    ELSE Min({Head(domains).len[i] : i \in NG}) + calc_bound(Tail(domains))

find_min_value(arr, start_idx, len) ==
    Min({INT_MAX} \cup {arr[start_idx + i] : i \in Idx(len)})

\* the score of one multi-domain under arguments.heuristic
heuristic_len(bd) ==
    CASE arguments.heuristic = "min_max" -> Max({bd.len[i] : i \in NG})
      [] arguments.heuristic = "min_min" -> Min({bd.len[i] : i \in NG})
      [] arguments.heuristic = "min_sum" -> accumulate(bd.len, arguments.arg_num, 0, FALSE)
      [] arguments.heuristic = "min_product" -> accumulate(bd.len, arguments.arg_num, 1, TRUE)

RECURSIVE select_loop(_, _, _, _, _, _, _)
select_loop(domains, left, current_matching_size, i, min_size, min_tie_breaker, best) ==
    IF i >= Len(domains) THEN best
    ELSE
      LET bd == domains[i + 1] IN
      IF arguments.connected /\ current_matching_size > 0 /\ ~bd.is_adjacent
      THEN select_loop(domains, left, current_matching_size, i + 1,
                       min_size, min_tie_breaker, best)
      ELSE
        LET len == heuristic_len(bd)
            tie_breaker == find_min_value(left, bd.sets[0], bd.len[0])
        IN IF len < min_size
           THEN select_loop(domains, left, current_matching_size, i + 1,
                            len, tie_breaker, i)
           ELSE IF len = min_size /\ tie_breaker < min_tie_breaker
           THEN select_loop(domains, left, current_matching_size, i + 1,
                            min_size, tie_breaker, i)
           ELSE select_loop(domains, left, current_matching_size, i + 1,
                            min_size, min_tie_breaker, best)

\* select_multidomain that never applies the connected test
select_multidomain_any(domains, left, current_matching_size) ==
    select_loop(domains, left, 0, 0, INT_MAX, INT_MAX, -1)

select_multidomain(domains, left, current_matching_size) ==
    select_loop(domains, left, current_matching_size, 0, INT_MAX, INT_MAX, -1)

Swap(arr, a, b) == [arr EXCEPT ![a] = arr[b], ![b] = arr[a]]

RECURSIVE partition_loop(_, _, _, _, _, _)
partition_loop(all_vv, start, len, adjrow, i, j) ==
    IF j >= len THEN [vv |-> all_vv, i |-> i]
    ELSE IF adjrow[all_vv[start + j]] # 0
    THEN partition_loop(Swap(all_vv, start + i, start + j), start, len, adjrow, i + 1, j + 1)
    ELSE partition_loop(all_vv, start, len, adjrow, i, j + 1)

\* partition that leaves the array alone and reports every vertex adjacent
partition_all_adjacent(all_vv, start, len, adjrow) == [vv |-> all_vv, i |-> len]

\* returns the reordered array and the length of its left half
partition(all_vv, start, len, adjrow) == partition_loop(all_vv, start, len, adjrow, 0, 0)

check_greater(lower, greater) == \A i \in NG : greater[i] > lower[i]

RECURSIVE max_elem_loop(_, _, _, _)
max_elem_loop(vet, i, max, counter) ==
    IF i >= arguments.arg_num
    THEN IF counter = arguments.arg_num THEN -1 ELSE max
    ELSE IF vet[i] > max THEN max_elem_loop(vet, i + 1, vet[i], 1)
    ELSE IF vet[i] = max THEN max_elem_loop(vet, i + 1, max, counter + 1)
    ELSE max_elem_loop(vet, i + 1, max, counter)

max_elem(vet) == max_elem_loop(vet, 0, 0, 0)

RECURSIVE sort_insert(_, _, _, _)
\* moves arr[pos] down to its place among arr[first..pos-1], already sorted by key
sort_insert(arr, first, pos, key) ==
    IF pos > first /\ key[arr[pos]] < key[arr[pos - 1]]
    THEN sort_insert(Swap(arr, pos, pos - 1), first, pos - 1, key)
    ELSE arr

RECURSIVE sort_window(_, _, _, _, _)
\* std::sort of arr[first .. first+len-1] by key.  The order std::sort leaves
\* among equal keys is unspecified; every later read of a window (minimum,
\* next smallest, partition by a predicate, search for a value) depends only
\* on the set of its values, and the sweep below only on the keys.
sort_window(arr, first, len, key, k) ==
    IF k >= len THEN arr
    ELSE sort_window(sort_insert(arr, first, first + k, key), first, len, key, k + 1)

RECURSIVE skip_equal(_, _, _, _, _)
\* do { s++; } while (s < top && adjrow[arr[s]] == lab);
skip_equal(arr, s, top, adjrow, lab) ==
    LET s1 == s + 1 IN
    IF s1 < top /\ adjrow[arr[s1]] = lab THEN skip_equal(arr, s1, top, adjrow, lab) ELSE s1

RECURSIVE sweep(_, _, _, _, _)
\* the while (check_greater(sets, top)) loop of filter_domains
sweep(vv, adjrows, sets, top, new_d) ==
    IF ~check_greater(sets, top) THEN new_d
    ELSE
      LET labels == [i \in NG |-> adjrows[i][vv[i][sets[i]]]]
          maximum == max_elem(labels)
      IN IF maximum # -1
         THEN sweep(vv, adjrows,
                    [i \in NG |-> IF labels[i] # maximum THEN sets[i] + 1 ELSE sets[i]],
                    top, new_d)
         ELSE
           LET min_sets == sets
               sets2 == [i \in NG |-> skip_equal(vv[i], sets[i], top[i], adjrows[i], labels[0])]
               dif_sets == [i \in NG |-> sets2[i] - min_sets[i]]
           IN sweep(vv, adjrows, sets2, top,
                    Append(new_d, Multidomain(min_sets, dif_sets, TRUE)))

\* the body of the loop over the old domains: one old domain
filter_one(old_bd, vv, g, vertex, multiway, new_d) ==
    LET sets == old_bd.sets
        parts == [i \in NG |->
                    partition(vv[i], sets[i], old_bd.len[i], g[i].adjmat[vertex[i]])]
        len_edge == [i \in NG |-> parts[i].i]
        len_noedge == [i \in NG |-> old_bd.len[i] - len_edge[i]]
        vv1 == [i \in NG |-> parts[i].vv]
        d1 == IF accumulate(len_noedge, arguments.arg_num, 1, TRUE) # 0
              THEN Append(new_d,
                          Multidomain([i \in NG |-> len_edge[i] + sets[i]],
                                      len_noedge, old_bd.is_adjacent))
              ELSE new_d
        is_empty == accumulate(len_edge, arguments.arg_num, 1, TRUE) # 0
    IN IF multiway /\ is_empty
       THEN LET adjrows == [i \in NG |-> g[i].adjmat[vertex[i]]]
                vv2 == [i \in NG |-> sort_window(vv1[i], sets[i], len_edge[i], adjrows[i], 0)]
                top == [i \in NG |-> sets[i] + len_edge[i]]
            IN [vv |-> vv2, new_d |-> sweep(vv2, adjrows, sets, top, d1)]
       ELSE IF is_empty
       THEN [vv |-> vv1, new_d |-> Append(d1, Multidomain(sets, len_edge, TRUE))]
       ELSE [vv |-> vv1, new_d |-> d1]

RECURSIVE filter_loop(_, _, _, _, _, _, _)
filter_loop(d, vv, g, vertex, multiway, k, new_d) ==
    IF k > Len(d) THEN [vv |-> vv, new_d |-> new_d]
    ELSE LET r == filter_one(d[k], vv, g, vertex, multiway, new_d)
         IN filter_loop(d, r.vv, g, vertex, multiway, k + 1, r.new_d)

\* returns the new domain list and the buffers, reordered in place
filter_domains(d, vv, g, vertex, multiway) ==
    filter_loop(d, vv, g, vertex, multiway, 1, << >>)


\* index_of_next_smallest without the test against the smallest value so
\* far: the last value greater than w
index_of_next_greater(arr, start_idx, len, w) ==
    LET cand == {i \in Idx(len) : arr[start_idx + i] > w /\ arr[start_idx + i] < INT_MAX}
    IN IF cand = {} THEN -1 ELSE Max(cand)

index_of_next_smallest(arr, start_idx, len, w) ==
    LET cand == {i \in Idx(len) : arr[start_idx + i] > w /\ arr[start_idx + i] < INT_MAX}
        least == {i \in cand : \A j \in cand : arr[start_idx + i] <= arr[start_idx + j]}
    IN IF cand = {} THEN -1 ELSE Min(least)

\* remove_vtx_from_domain that copies the last vertex over v instead of swapping
remove_vtx_from_domain_overwrite(left, bd, v, idx) ==
    LET i == Min({k \in Idx(bd.len[idx]) : left[bd.sets[idx] + k] = v})
    IN [vv |-> [left EXCEPT ![bd.sets[idx] + i] = left[bd.sets[idx] + bd.len[idx] - 1]],
        bd |-> [bd EXCEPT !.len[idx] = @ - 1]]

\* returns the reordered array and the shortened domain
remove_vtx_from_domain(left, bd, v, idx) ==
    LET i == Min({k \in Idx(bd.len[idx]) : left[bd.sets[idx] + k] = v})
    IN [vv |-> Swap(left, bd.sets[idx] + i, bd.sets[idx] + bd.len[idx] - 1),
        bd |-> [bd EXCEPT !.len[idx] = @ - 1]]

remove_bidomain(domains, idx) ==
    LET moved == [domains EXCEPT ![idx + 1] = domains[Len(domains)]]
    IN SubSeq(moved, 1, Len(domains) - 1)

RECURSIVE perm_insert(_, _, _)
\* insertion step of std::stable_sort on fewer than 16 elements with the
\* comparator bd.len[a] >= bd.len[b].  The comparator is not a strict weak
\* ordering, so the standard fixes no result for equal lengths: the insertion
\* sort of the usual libraries moves the element at pos in front of every
\* element on its left that is not longer ("reversed"); the other outcome
\* considered keeps equal lengths in index order ("kept").
perm_insert(arr, pos, len) ==
    IF /\ pos > 0
       /\ \/ len[arr[pos]] > len[arr[pos - 1]]
          \/ stable_sort_ties = "reversed" /\ len[arr[pos]] = len[arr[pos - 1]]
    THEN perm_insert(Swap(arr, pos, pos - 1), pos - 1, len)
    ELSE arr

RECURSIVE perm_sort(_, _, _)
perm_sort(arr, k, len) ==
    IF k >= arguments.arg_num THEN arr
    ELSE perm_sort(perm_insert(arr, k, len), k + 1, len)

\* the axis permutation of a frame (SORTED == -1)
sorted_vv_idx(bd) == perm_sort([i \in NG |-> i], 1, bd.len)

VtxSet(v) == [i \in NG |-> v[i]]

\* returns the buffers, the tuple under construction and the shrunk domain
solve_first_graph(vv, nodi_inseriti, order, bd) ==
    LET pos == order[0]
        bd1 == [bd EXCEPT !.len = [i \in NG |-> IF i = pos THEN bd.len[i] ELSE bd.len[i] - 1]]
        v == find_min_value(vv[pos], bd1.sets[pos], bd1.len[pos])
        r == remove_vtx_from_domain(vv[pos], bd1, v, pos)
    IN [vv |-> [vv EXCEPT ![pos] = r.vv],
        nodi_inseriti |-> [nodi_inseriti EXCEPT ![pos] = v],
        bd |-> r.bd]

\* solve_other_graphs that picks w but leaves it inside the domain
solve_other_graphs_no_swap(vv, pos, bd, w) ==
    LET idx == index_of_next_smallest(vv[pos], bd.sets[pos], bd.len[pos] + 1, w) IN
    IF idx = -1 THEN [ok |-> FALSE, vv |-> vv, w |-> w]
    ELSE [ok |-> TRUE, vv |-> vv, w |-> vv[pos][bd.sets[pos] + idx]]

\* returns whether a next w exists, and then the buffers and w
solve_other_graphs(vv, pos, bd, w) ==
    LET idx == index_of_next_smallest(vv[pos], bd.sets[pos], bd.len[pos] + 1, w) IN
    IF idx = -1 THEN [ok |-> FALSE, vv |-> vv, w |-> w]
    ELSE LET w1 == vv[pos][bd.sets[pos] + idx]
             a == [vv[pos] EXCEPT ![bd.sets[pos] + idx] = vv[pos][bd.sets[pos] + bd.len[pos]]]
             b == [a EXCEPT ![bd.sets[pos] + bd.len[pos]] = w1]
         IN [ok |-> TRUE, vv |-> [vv EXCEPT ![pos] = b], w |-> w1]

multiway == arguments.directed \/ arguments.edge_labelled

\* AtomicIncumbent::update as one linearised step: the new value
update(value, v) == IF v > value THEN v ELSE value

(***************************************************************************)
(* sorted_solve_nopar when abort is never raised, as a function of its      *)
(* arguments: the shared incumbent value, the thread's incumbent, current   *)
(* and the buffers as they are when the call returns.  arguments.big_first  *)
(* is passed as big_first.  A call returns with `current` as long as it was *)
(* on entry; the two tests of that length never fail, they only make the    *)
(* evaluator compute a call's result before it starts the next call.        *)
(***************************************************************************)
RECURSIVE sorted_solve_nopar(_, _, _, _, _, _, _, _, _)
RECURSIVE nopar_loop(_, _, _, _, _, _, _, _, _, _)

\* for (int i = 1; i > 0; ) { ... } of sorted_solve_nopar
nopar_loop(depth, g, domains, bd_idx, perm, matching_size_goal, big_first, i, soluzione, st) ==
    IF i <= 0 THEN st
    ELSE
      LET bd == domains[bd_idx + 1]
          r == solve_other_graphs(st.vv, perm[i], bd, soluzione[perm[i]])
      IN IF r.ok
         THEN LET sol == [soluzione EXCEPT ![perm[i]] = r.w] IN
              IF i + 1 = arguments.arg_num
              THEN LET cur == Append(st.current, VtxSet(sol))
                       f == filter_domains(domains, r.vv, g, sol, multiway)
                       c == sorted_solve_nopar(depth + 1, g, st.global_incumbent,
                                               st.my_incumbent, cur, f.new_d, f.vv,
                                               matching_size_goal, big_first)
                       st1 == [c EXCEPT !.current = SubSeq(@, 1, Len(@) - 1)]
                   IN IF Len(st1.current) # Len(st.current) THEN st1
                      ELSE nopar_loop(depth, g, domains, bd_idx, perm, matching_size_goal,
                                      big_first, i, sol, st1)
              ELSE nopar_loop(depth, g, domains, bd_idx, perm, matching_size_goal, big_first, i + 1, sol,
                              [st EXCEPT !.vv = r.vv])
         ELSE nopar_loop(depth, g, domains, bd_idx, perm, matching_size_goal, big_first, i - 1,
                         [soluzione EXCEPT ![perm[i]] = -1], st)

sorted_solve_nopar(depth, g, incumbent_value, my_incumbent, current, domains, vv, matching_size_goal, big_first) ==
    LET better == Len(my_incumbent) < Len(current)
        inc == IF better THEN current ELSE my_incumbent
        glob == IF better THEN update(incumbent_value, Len(current)) ELSE incumbent_value
        st0 == [global_incumbent |-> glob, my_incumbent |-> inc,
                current |-> current, vv |-> vv]
        bound == Len(current) + calc_bound(domains)
    IN IF bound <= glob \/ bound < matching_size_goal THEN st0
       ELSE IF big_first /\ glob = matching_size_goal THEN st0
       ELSE
         LET bd_idx == select_multidomain(domains, vv[0], Len(current)) IN
         IF bd_idx = -1 THEN st0
         ELSE
           LET perm == sorted_vv_idx(domains[bd_idx + 1])
               f == solve_first_graph(vv, [i \in NG |-> -1], perm, domains[bd_idx + 1])
               domains1 == [domains EXCEPT ![bd_idx + 1] = f.bd]
               st1 == nopar_loop(depth, g, domains1, bd_idx, perm, matching_size_goal, big_first, 1,
                                 f.nodi_inseriti, [st0 EXCEPT !.vv = f.vv])
               domains2 ==
                 IF f.bd.len[perm[0]] = 0 THEN remove_bidomain(domains1, bd_idx)
                 ELSE [domains1 EXCEPT ![bd_idx + 1].len =
                         [i \in NG |-> IF i = perm[0] THEN @[i] ELSE @[i] + 1]]
           IN IF Len(st1.current) # Len(current) THEN st1
              ELSE sorted_solve_nopar(depth + 1, g, st1.global_incumbent, st1.my_incumbent,
                                      st1.current, domains2, st1.vv, matching_size_goal,
                                      big_first)

(***************************************************************************)
(* mcs(): the initial domains                                               *)
(***************************************************************************)
\* the labels of the first graph, shared or not
intersection_first(vecs) == vecs[0]

\* intersection(), lines 949-962
intersection(vecs) == {l \in vecs[0] : \A i \in DOMAIN vecs : l \in vecs[i]}

\* a < b as unsigned int (a word with bit 31 set is kept as a negative int)
UnsignedLess(a, b) == IF (a < 0) = (b < 0) THEN a < b ELSE b < 0

RECURSIVE SetToSortedSeq(_)
\* the iteration order of a std::set<unsigned int>
SetToSortedSeq(S) ==
    IF S = {} THEN << >>
    ELSE LET m == CHOOSE x \in S : \A y \in S : x = y \/ UnsignedLess(x, y)
         IN <<m>> \o SetToSortedSeq(S \ {m})

\* the vertices 0..n-1 of a 0-based array appended to another
ArrAppend(arr, seq) ==
    LET n == Cardinality(DOMAIN arr) IN
    [i \in Idx(n + Len(seq)) |-> IF i < n THEN arr[i] ELSE seq[i - n + 1]]

RECURSIVE initial_domains_loop(_, _, _, _)
\* for (unsigned int label : labels) { ... } of mcs()
initial_domains_loop(g, labels, vtx_buf, domains) ==
    IF labels = << >> THEN [vtx_buf |-> vtx_buf, domains |-> domains]
    ELSE
      LET label == Head(labels)
          with == [i \in NG |-> SetToSortedSeq({j \in Idx(g[i].n) : g[i].label[j] = label})]
          starts == [i \in NG |-> Cardinality(DOMAIN vtx_buf[i])]
          buf == [i \in NG |-> ArrAppend(vtx_buf[i], with[i])]
          len == [i \in NG |-> Cardinality(DOMAIN buf[i]) - starts[i]]
      IN initial_domains_loop(g, Tail(labels), buf,
                              Append(domains, Multidomain(starts, len, FALSE)))

\* initial domains that put all vertices in one multi-domain, whatever
\* their labels
initial_domains_unlabelled(g) ==
    [vtx_buf |-> [i \in NG |-> [j \in Idx(g[i].n) |-> j]],
     domains |-> <<Multidomain([i \in NG |-> 0], [i \in NG |-> g[i].n], FALSE)>>]

initial_domains(g) ==
    LET labels_vv == [i \in NG |-> {g[i].label[j] : j \in Idx(g[i].n)}]
        labels == SetToSortedSeq(intersection(labels_vv))
    IN initial_domains_loop(g, labels, [i \in NG |-> << >>], << >>)


(***************************************************************************)
(* mcs() on one thread when abort is never raised, as a function            *)
(***************************************************************************)
RECURSIVE big_first_loop(_, _, _, _)
\* for (int k=0; k<gi[0].n; k++) { ... } of mcs(): st is the shared incumbent
\* value and the mapping kept so far
big_first_loop(g, d, k, st) ==
    IF k >= g[0].n THEN st
    ELSE LET goal == g[0].n - k
             r == sorted_solve_nopar(0, g, st.global_incumbent, << >>, << >>,
                                     d.domains, d.vtx_buf, goal, TRUE)
             st1 == [global_incumbent |-> r.global_incumbent,
                     incumbent |-> IF Len(r.my_incumbent) > Len(st.incumbent)
                                   THEN r.my_incumbent ELSE st.incumbent]
         IN IF r.global_incumbent = goal THEN st1 ELSE big_first_loop(g, d, k + 1, st1)

\* the mapping mcs() returns with threads = 1 and no abort
mcs(g, big_first) ==
    LET d == initial_domains(g) IN
    IF big_first
    THEN big_first_loop(g, d, 0, [global_incumbent |-> 0, incumbent |-> << >>]).incumbent
    ELSE sorted_solve_nopar(0, g, 0, << >>, << >>, d.domains, d.vtx_buf, 1, FALSE).my_incumbent

(***************************************************************************)
(* Threads, positions, frames                                               *)
(***************************************************************************)
MainThread == 0
Threads == 0 .. (arguments.threads - 1)
Workers == Threads \ {MainThread}

NULL == [null |-> TRUE]

\* Position::Position()
Position0 == [values |-> [p \in 0 .. split_levels |-> 0], depth |-> 0]

\* Position::add that records the depth and drops the fresh value
PositionAdd_no_value(pos, d, v) == [values |-> pos.values, depth |-> d]

\* Position::add
PositionAdd(pos, d, v) ==
    [values |-> IF d <= split_levels THEN [pos.values EXCEPT ![d] = v] ELSE pos.values,
     depth |-> d]

RECURSIVE LexLess(_, _, _)
LexLess(a, b, p) ==
    IF p > split_levels THEN FALSE
    ELSE IF a[p] < b[p] THEN TRUE
    ELSE IF a[p] > b[p] THEN FALSE
    ELSE LexLess(a, b, p + 1)

\* Position::operator<
PositionLess(a, b) ==
    IF a.depth < b.depth THEN TRUE
    ELSE IF a.depth > b.depth THEN FALSE
    ELSE LexLess(a.values, b.values, 0)

Top(t) == stack[t][Len(stack[t])]
SetTop(s, f) == [s EXCEPT ![Len(s)] = f]
Pop(s) == SubSeq(s, 1, Len(s) - 1)

\* a frame of sorted_solve ("par"), of sorted_solve_nopar ("nopar") or of one
\* execution of a helper_function ("helper"), at its first statement.
\* window_at_fix keeps the vertices the windows of the selected multi-domain
\* held when the pivot was fixed, and offered[pos] the values solve_other_graphs
\* has returned on axis pos since that axis last started from -1.  A frame
\* that owns a shared_i (sorted_solve, sorted_solve_nopar) keeps in `tried`
\* how many times each partner tuple was pushed for its pivot, by itself or by
\* a helper execution of its task, and in `skips` the number of pivot-skipped
\* calls made for it.  windows_at_call keeps the vertices every window of the
\* frame's list held when the frame last called into a tuple, and
\* domains_at_skip the list the frame held when it left its partner loop.
SearchFrame(kind, depth, goal, domains, position, owner) ==
    [kind |-> kind, pc |-> IF kind = "helper" THEN "h_start" ELSE "entry",
     depth |-> depth, matching_size_goal |-> goal, domains |-> domains,
     position |-> position, bd_idx |-> -1, sorted_vv_idx |-> << >>,
     soluzione |-> << >>, i |-> 0, which_i_should_i_run_next |-> 0, w0_index |-> 0,
     i_end |-> 0, shared_i |-> 0, published |-> FALSE, helper_function |-> NULL,
     new_domains |-> << >>, new_position |-> position, owner |-> owner, bound |-> 0,
     executed |-> << >>, abort_at_entry |-> FALSE, current_at_entry |-> << >>,
     offered |-> << >>, window_at_fix |-> << >>, tried |-> << >>, skips |-> 0,
     windows_at_call |-> << >>, domains_at_skip |-> << >>]

IsSearch(f) == f.kind \in {"par", "nopar", "helper"}

\* the vertices of graph i in the window of multi-domain d
Window(vv, d, i) == {vv[i][d.sets[i] + j] : j \in Idx(d.len[i])}

\* a notification that wakes nobody
notify_all_lost(st) == st

\* cv.notify_all(): every thread blocked in cv.wait(guard) becomes runnable
notify_all(st) ==
    [t \in DOMAIN st |->
        IF st[t] # << >> /\ st[t][Len(st[t])].pc = "barrier_wait"
        THEN SetTop(st[t], [st[t][Len(st[t])] EXCEPT !.pc = "barrier"])
        ELSE IF st[t] # << >> /\ st[t][Len(st[t])].pc = "w_wait"
        THEN SetTop(st[t], [st[t][Len(st[t])] EXCEPT !.pc = "w_top"])
        ELSE st[t]]

(***************************************************************************)
(* Returning.  `s` is a thread's stack whose top frame has just finished    *)
(* its loop and its pivot-skipped call, or has executed `return`.           *)
(***************************************************************************)
RECURSIVE finish_function(_, _)
RECURSIVE resume_caller(_, _)

\* resume_caller without thread_current.pop_back()
resume_caller_no_pop(s, cur) ==
    LET p == s[Len(s)] IN
    CASE p.kind = "worker" -> [stack |-> SetTop(s, [p EXCEPT !.pc = "w_finish"]), current |-> cur]
      [] p.kind = "mcs" -> [stack |-> SetTop(s, [p EXCEPT !.pc = "kill"]), current |-> cur]
      [] p.pc = "call" ->
           [stack |-> SetTop(s, [p EXCEPT !.pc = IF p.kind # "nopar" /\ p.i = 1
                                                  THEN "claim" ELSE "loop"]),
            current |-> cur]
      [] p.pc = "skipcall" -> finish_function(s, cur)

\* the caller continues after the call it was waiting in
resume_caller(s, cur) ==
    LET p == s[Len(s)] IN
    CASE p.kind = "worker" -> [stack |-> SetTop(s, [p EXCEPT !.pc = "w_finish"]), current |-> cur]
      [] p.kind = "mcs" -> [stack |-> SetTop(s, [p EXCEPT !.pc = "kill"]), current |-> cur]
      [] p.pc = "call" ->
           \* i--; thread_current.pop_back(); then, if (prev_i == 1), the next claim
           [stack |-> SetTop(s, [p EXCEPT !.pc = IF p.kind # "nopar" /\ p.i = 1
                                                  THEN "claim" ELSE "loop"]),
            current |-> SubSeq(cur, 1, Len(cur) - 1)]
      [] p.pc = "skipcall" -> finish_function(s, cur)

\* main_function, helper_function or sorted_solve_nopar has ended in the top
\* frame: a published sorted_solve goes on to the barrier of get_help_with,
\* anything else returns to its caller
finish_function(s, cur) ==
    LET p == s[Len(s)] IN
    IF p.kind = "par" /\ p.published
    THEN [stack |-> SetTop(s, [p EXCEPT !.pc = "barrier"]), current |-> cur]
    ELSE resume_caller(Pop(s), cur)

(***************************************************************************)
(* The steps of a search frame                                              *)
(***************************************************************************)
\* lines 593-596 / 713-716: record the incumbent, publish its size.  The frame
\* keeps in abort_at_entry and current_at_entry what abort_due_to_timeout and
\* `current` were at this, its first, statement.
Enter(t) ==
    /\ stack[t] # << >> /\ IsSearch(Top(t)) /\ Top(t).pc = "entry"
    /\ LET better == Len(per_thread_incumbents[t]) < Len(thread_current[t]) IN
       /\ per_thread_incumbents' =
            IF better THEN [per_thread_incumbents EXCEPT ![t] = thread_current[t]]
            ELSE per_thread_incumbents
       /\ global_incumbent' =
            IF better THEN update(global_incumbent, Len(thread_current[t])) ELSE global_incumbent
    /\ stack' = [stack EXCEPT ![t] =
                   SetTop(@, [Top(t) EXCEPT !.pc = "bound",
                                            !.abort_at_entry = abort_due_to_timeout,
                                            !.current_at_entry = thread_current[t]])]
    /\ UNCHANGED <<arguments, stable_sort_ties, gi, vvi, gi_sorted, abort_due_to_timeout, aborted,
                   timeout_thread, global_position, incumbent, tasks, finish,
                   thread_current, thread_vv, solution_first, assert_failed>>

\* lines 614-664 / 731-871: select the domain, fix the pivot, build the
\* helper's closure and take the first branch index; all local to the thread.
\* Returns the stack and the buffers of the thread.
select_and_fix(t, s, cur, buf) ==
    LET f == s[Len(s)]
        bd_idx == select_multidomain(f.domains, buf[0], Len(cur))
    IN IF bd_idx = -1 THEN [r |-> resume_caller(Pop(s), cur), vv |-> buf]
       ELSE
         LET perm == sorted_vv_idx(f.domains[bd_idx + 1])
             sf == solve_first_graph(buf, [i \in NG |-> -1], perm, f.domains[bd_idx + 1])
             domains1 == [f.domains EXCEPT ![bd_idx + 1] = sf.bd]
             par == f.kind = "par"
             publish == par /\ f.depth <= split_levels
             f1 == [f EXCEPT !.bd_idx = bd_idx, !.sorted_vv_idx = perm,
                             !.domains = domains1, !.soluzione = sf.nodi_inseriti,
                             !.i = 1, !.w0_index = 0,
                             !.offered = [i \in NG |-> << >>],
                             !.window_at_fix =
                                [i \in NG |-> {buf[i][f.domains[bd_idx + 1].sets[i] + j] :
                                                  j \in Idx(f.domains[bd_idx + 1].len[i])}],
                             !.shared_i = IF par THEN 1 ELSE 0,
                             !.which_i_should_i_run_next = 0,
                             !.i_end = sf.bd.len[perm[1]] + 2,
                             !.executed = IF par THEN [j \in 1 .. sf.bd.len[perm[1]] + 2 |-> << >>]
                                          ELSE << >>,
                             !.helper_function =
                                IF publish
                                THEN [current |-> cur, domains |-> domains1,
                                      vv |-> sf.vv, soluzione |-> sf.nodi_inseriti]
                                ELSE NULL,
                             !.pc = IF publish THEN "publish" ELSE "loop"]
         IN [r |-> [stack |-> SetTop(s, f1), current |-> cur], vv |-> sf.vv]

\* restore_domains without the test of the perm[0] window: the selected
\* domain always stays in the list
restore_domains_keep(f) ==
    [f.domains EXCEPT ![f.bd_idx + 1].len =
        [i \in NG |-> IF i = f.sorted_vv_idx[0] THEN @[i] ELSE @[i] + 1]]

\* the domain list a frame hands to its pivot-skipped call (lines 687-696)
restore_domains(f) ==
    LET bd == f.domains[f.bd_idx + 1]
        perm == f.sorted_vv_idx
    IN IF bd.len[perm[0]] = 0 THEN remove_bidomain(f.domains, f.bd_idx)
       ELSE [f.domains EXCEPT ![f.bd_idx + 1].len =
               [i \in NG |-> IF i = perm[0] THEN @[i] ELSE @[i] + 1]]

RECURSIVE advance(_, _)
\* The partner loop `for (int i = 1; i > 0; )` run by one thread up to its next
\* access to shared memory: up to a full tuple ("recurse"), up to the claim
\* that follows a pick on axis 1 when K > 2 ("claim"), or to its end ("end").
\* In a "recurse" result i keeps its value from before `i ++`.
advance(f, buf) ==
    IF f.i <= 0 THEN [f |-> f, vv |-> buf, outcome |-> "end"]
    ELSE
      LET pos == f.sorted_vv_idx[f.i]
          bd == f.domains[f.bd_idx + 1]
          r == solve_other_graphs(buf, pos, bd, f.soluzione[pos])
      IN IF r.ok
         THEN LET f1 == [f EXCEPT !.soluzione[pos] = r.w,
                                  !.offered[pos] = IF f.soluzione[pos] = -1 THEN <<r.w>>
                                                   ELSE Append(@, r.w)]
                  should_i == \/ f.kind = "nopar"
                              \/ f.i # 1
                              \/ f.which_i_should_i_run_next = f.w0_index
              IN IF should_i
                 THEN IF f.i + 1 = arguments.arg_num
                      THEN [f |-> f1, vv |-> r.vv, outcome |-> "recurse"]
                      ELSE IF f.i = 1 /\ f.kind # "nopar"
                      THEN [f |-> [f1 EXCEPT !.i = 2], vv |-> r.vv, outcome |-> "claim"]
                      ELSE advance([f1 EXCEPT !.i = @ + 1], r.vv)
                 ELSE advance([f1 EXCEPT !.w0_index = @ + 1], r.vv)
         ELSE advance([f EXCEPT !.soluzione[pos] = -1, !.i = @ - 1], buf)

\* CallsNopar without the test of the depth: a sorted_solve frame always
\* calls sorted_solve
CallsNopar_kind_only(f) == f.kind = "nopar"

\* whether a frame's recursive calls go to sorted_solve_nopar
CallsNopar(f) == f.kind = "nopar" \/ f.depth > split_levels

\* Bound with the test bound < global_incumbent.value in place of <=
Bound_strict(t) ==
    /\ stack[t] # << >> /\ IsSearch(Top(t)) /\ Top(t).pc = "bound"
    /\ \E bound \in {Len(thread_current[t]) + calc_bound(Top(t).domains)} :
       \E f \in {[Top(t) EXCEPT !.bound = bound]} :
       \E s \in {SetTop(stack[t], f)} :
          IF bound < global_incumbent \/ bound < f.matching_size_goal
          THEN \E r \in {resume_caller(Pop(stack[t]), thread_current[t])} :
               /\ stack' = [stack EXCEPT ![t] = r.stack]
               /\ thread_current' = [thread_current EXCEPT ![t] = r.current]
               /\ thread_vv' = thread_vv
          ELSE IF arguments.big_first
          THEN /\ stack' = [stack EXCEPT ![t] = SetTop(@, [f EXCEPT !.pc = "goal"])]
               /\ UNCHANGED <<thread_current, thread_vv>>
          ELSE \E r \in {select_and_fix(t, s, thread_current[t], thread_vv[t])} :
               /\ stack' = [stack EXCEPT ![t] = r.r.stack]
               /\ thread_current' = [thread_current EXCEPT ![t] = r.r.current]
               /\ thread_vv' = [thread_vv EXCEPT ![t] = r.vv]
    /\ UNCHANGED <<arguments, stable_sort_ties, gi, vvi, gi_sorted, abort_due_to_timeout, aborted,
                   timeout_thread, global_position, global_incumbent, incumbent,
                   per_thread_incumbents, tasks, finish, solution_first, assert_failed>>

\* lines 605-607 / 724-726, and when big_first is off the selection after it
Bound(t) ==
    /\ stack[t] # << >> /\ IsSearch(Top(t)) /\ Top(t).pc = "bound"
    /\ \E bound \in {Len(thread_current[t]) + calc_bound(Top(t).domains)} :
       \E f \in {[Top(t) EXCEPT !.bound = bound]} :
       \E s \in {SetTop(stack[t], f)} :
          IF bound <= global_incumbent \/ bound < f.matching_size_goal
          THEN \E r \in {resume_caller(Pop(stack[t]), thread_current[t])} :
               /\ stack' = [stack EXCEPT ![t] = r.stack]
               /\ thread_current' = [thread_current EXCEPT ![t] = r.current]
               /\ thread_vv' = thread_vv
          ELSE IF arguments.big_first
          THEN /\ stack' = [stack EXCEPT ![t] = SetTop(@, [f EXCEPT !.pc = "goal"])]
               /\ UNCHANGED <<thread_current, thread_vv>>
          ELSE \E r \in {select_and_fix(t, s, thread_current[t], thread_vv[t])} :
               /\ stack' = [stack EXCEPT ![t] = r.r.stack]
               /\ thread_current' = [thread_current EXCEPT ![t] = r.r.current]
               /\ thread_vv' = [thread_vv EXCEPT ![t] = r.vv]
    /\ UNCHANGED <<arguments, stable_sort_ties, gi, vvi, gi_sorted, abort_due_to_timeout, aborted,
                   timeout_thread, global_position, global_incumbent, incumbent,
                   per_thread_incumbents, tasks, finish, solution_first, assert_failed>>

\* lines 609-610 / 728-729 (big_first), and the selection after it
Goal(t) ==
    /\ stack[t] # << >> /\ IsSearch(Top(t)) /\ Top(t).pc = "goal"
    /\ LET f == Top(t) IN
       IF global_incumbent = f.matching_size_goal
       THEN \E r \in {resume_caller(Pop(stack[t]), thread_current[t])} :
            /\ stack' = [stack EXCEPT ![t] = r.stack]
            /\ thread_current' = [thread_current EXCEPT ![t] = r.current]
            /\ thread_vv' = thread_vv
       ELSE \E r \in {select_and_fix(t, stack[t], thread_current[t], thread_vv[t])} :
            /\ stack' = [stack EXCEPT ![t] = r.r.stack]
            /\ thread_current' = [thread_current EXCEPT ![t] = r.r.current]
            /\ thread_vv' = [thread_vv EXCEPT ![t] = r.vv]
    /\ UNCHANGED <<arguments, stable_sort_ties, gi, vvi, gi_sorted, abort_due_to_timeout, aborted,
                   timeout_thread, global_position, global_incumbent, incumbent,
                   per_thread_incumbents, tasks, finish, solution_first, assert_failed>>

\* get_help_with, lines 293-299: insert the task and wake the pool.  Beside
\* func and pending an entry keeps `started`, the history of the workers that
\* have begun to run it.
Publish(t) ==
    /\ stack[t] # << >> /\ IsSearch(Top(t)) /\ Top(t).pc = "publish"
    /\ LET f == Top(t)
           present == f.position \in DOMAIN tasks
           st1 == [stack EXCEPT ![t] = SetTop(@, [f EXCEPT !.pc = "loop", !.published = TRUE])]
       IN /\ assert_failed' = (assert_failed \/ present)
          /\ tasks' = IF present THEN tasks
                      ELSE [q \in DOMAIN tasks \cup {f.position} |->
                              IF q = f.position
                              THEN [func |-> [t |-> t, idx |-> Len(stack[t])], pending |-> 0,
                                    started |-> << >>]
                              ELSE tasks[q]]
          /\ stack' = notify_all(st1)
    /\ UNCHANGED <<arguments, stable_sort_ties, gi, vvi, gi_sorted, abort_due_to_timeout, aborted,
                   timeout_thread, global_position, global_incumbent, incumbent,
                   per_thread_incumbents, finish, thread_current, thread_vv, solution_first>>

\* the frame whose shared_i a frame claims from: its own, or for a helper the
\* publishing frame its closure refers to
SharedOwner(t) ==
    IF Top(t).kind = "helper" THEN Top(t).owner ELSE [t |-> t, idx |-> Len(stack[t])]

\* history of a sorted_solve frame: for each branch index (the w0_index of
\* a partner on axis 1, or of the pivot-skipped call) the threads that have
\* run it, of those sharing the frame's shared_i
run_branch(st, o, j, t) == [st EXCEPT ![o.t][o.idx].executed[j + 1] = Append(@, t)]

\* One run of the partner loop of main_function, helper_function or
\* sorted_solve_nopar up to its next shared access (lines 666-699, 807-866,
\* 878-937): a tuple pushed and the domains filtered, or the loop left and
\* the pivot-skipped call made.
Loop(t) ==
    /\ stack[t] # << >> /\ IsSearch(Top(t)) /\ Top(t).pc = "loop"
    /\ \E a \in {advance(Top(t), thread_vv[t])} :
       LET f == a.f
           bump == ~CallsNopar(f)
           pos1 == IF bump THEN PositionAdd(f.position, f.depth, global_position + 1)
                   ELSE f.position
           o == SharedOwner(t)
           ran(st) == IF f.kind = "nopar" THEN st ELSE run_branch(st, o, f.w0_index, t)
           try(st) == [st EXCEPT ![o.t][o.idx].tried =
                         [x \in DOMAIN @ \cup {f.soluzione} |->
                            (IF x \in DOMAIN @ THEN @[x] ELSE 0) + (IF x = f.soluzione THEN 1 ELSE 0)]]
           skip(st) == [st EXCEPT ![o.t][o.idx].skips = @ + 1]
       IN CASE a.outcome = "recurse" ->
                 \E fd \in {filter_domains(f.domains, a.vv, gi_sorted, f.soluzione, multiway)} :
                 /\ thread_current' = [thread_current EXCEPT ![t] = Append(@, VtxSet(f.soluzione))]
                 /\ thread_vv' = [thread_vv EXCEPT ![t] = fd.vv]
                 /\ global_position' = IF bump THEN global_position + 1 ELSE global_position
                 /\ \E st \in {[stack EXCEPT ![t] =
                                    SetTop(@, [f EXCEPT !.pc = "abort_check",
                                                        !.new_domains = fd.new_d,
                                                        !.new_position = pos1])]} :
                        stack' = try(IF f.i = 1 THEN ran(st) ELSE st)
            [] a.outcome = "claim" ->
                 /\ stack' = ran([stack EXCEPT ![t] = SetTop(@, [f EXCEPT !.pc = "claim"])])
                 /\ thread_vv' = [thread_vv EXCEPT ![t] = a.vv]
                 /\ UNCHANGED <<thread_current, global_position>>
            [] a.outcome = "end" ->
                 IF f.kind = "nopar" \/ f.which_i_should_i_run_next = f.w0_index
                 THEN LET child == SearchFrame(IF CallsNopar(f) THEN "nopar" ELSE "par",
                                               f.depth + 1, f.matching_size_goal,
                                               restore_domains(f), pos1, NULL)
                      IN /\ stack' = skip(ran([stack EXCEPT ![t] =
                                            Append(SetTop(@, [f EXCEPT !.pc = "skipcall",
                                                                       !.domains = << >>,
                                                                       !.domains_at_skip = f.domains]),
                                                   child)]))
                         /\ global_position' = IF bump THEN global_position + 1
                                               ELSE global_position
                         /\ thread_vv' = [thread_vv EXCEPT ![t] = a.vv]
                         /\ UNCHANGED thread_current
                 ELSE \E r \in {finish_function(SetTop(stack[t], f), thread_current[t])} :
                      /\ stack' = [stack EXCEPT ![t] = r.stack]
                      /\ thread_current' = [thread_current EXCEPT ![t] = r.current]
                      /\ thread_vv' = [thread_vv EXCEPT ![t] = a.vv]
                      /\ UNCHANGED global_position
    /\ UNCHANGED <<arguments, stable_sort_ties, gi, vvi, gi_sorted, abort_due_to_timeout, aborted,
                   timeout_thread, global_incumbent, incumbent,
                   per_thread_incumbents, tasks, finish, solution_first, assert_failed>>

\* `if (abort_due_to_timeout) return;` and the recursive call after it
\* (lines 673-675, 817-828, 888-899).  The bottom frame of the thread keeps in
\* `observed` that the thread has read the flag as true.
AbortCheck(t) ==
    /\ stack[t] # << >> /\ IsSearch(Top(t)) /\ Top(t).pc = "abort_check"
    /\ LET f == Top(t) IN
       IF abort_due_to_timeout
       THEN \E r \in {finish_function(stack[t], thread_current[t])} :
            /\ stack' = [stack EXCEPT ![t] = [r.stack EXCEPT ![1].observed = TRUE]]
            /\ thread_current' = [thread_current EXCEPT ![t] = r.current]
       ELSE LET child == SearchFrame(IF CallsNopar(f) THEN "nopar" ELSE "par",
                                     f.depth + 1, f.matching_size_goal,
                                     f.new_domains, f.new_position, NULL)
            IN /\ stack' = [stack EXCEPT ![t] =
                              Append(SetTop(@, [f EXCEPT !.pc = "call",
                                                         !.new_domains = << >>,
                                                         !.windows_at_call =
                                                            [j \in 1 .. Len(f.domains) |->
                                                               [i \in NG |-> Window(thread_vv[t], f.domains[j], i)]]]),
                                     child)]
               /\ UNCHANGED thread_current
    /\ UNCHANGED <<arguments, stable_sort_ties, gi, vvi, gi_sorted, abort_due_to_timeout, aborted,
                   timeout_thread, global_position, global_incumbent, incumbent,
                   per_thread_incumbents, tasks, finish, thread_vv, solution_first, assert_failed>>

\* a claim that reads shared_i and leaves it as it was
Claim_read_only(t) ==
    /\ stack[t] # << >> /\ IsSearch(Top(t)) /\ Top(t).pc = "claim"
    /\ LET o == SharedOwner(t)
           got == stack[o.t][o.idx].shared_i
       IN stack' = [stack EXCEPT ![t] =
                      SetTop(@, [Top(t) EXCEPT
                                    !.which_i_should_i_run_next = got,
                                    !.w0_index = @ + 1,
                                    !.pc = "loop"])]
    /\ UNCHANGED <<arguments, stable_sort_ties, gi, vvi, gi_sorted, abort_due_to_timeout, aborted,
                   timeout_thread, global_position, global_incumbent, incumbent,
                   per_thread_incumbents, tasks, finish, thread_current, thread_vv, solution_first,
                   assert_failed>>

\* which_i_should_i_run_next = shared_i++; w0_index += (prev_i == 1);
\* (lines 832-836, 903-907)
Claim(t) ==
    /\ stack[t] # << >> /\ IsSearch(Top(t)) /\ Top(t).pc = "claim"
    /\ LET o == SharedOwner(t)
           got == stack[o.t][o.idx].shared_i
           st1 == [stack EXCEPT ![o.t][o.idx].shared_i = @ + 1]
       IN stack' = [st1 EXCEPT ![t] =
                      SetTop(@, [st1[t][Len(st1[t])] EXCEPT
                                    !.which_i_should_i_run_next = got,
                                    !.w0_index = @ + 1,
                                    !.pc = "loop"])]
    /\ UNCHANGED <<arguments, stable_sort_ties, gi, vvi, gi_sorted, abort_due_to_timeout, aborted,
                   timeout_thread, global_position, global_incumbent, incumbent,
                   per_thread_incumbents, tasks, finish, thread_current, thread_vv, solution_first,
                   assert_failed>>

\* get_help_with erasing the task without waiting for pending == 0
Barrier_no_wait(t) ==
    /\ stack[t] # << >> /\ IsSearch(Top(t)) /\ Top(t).pc = "barrier"
    /\ LET f == Top(t) IN
       \E r \in {resume_caller(Pop(stack[t]), thread_current[t])} :
            /\ tasks' = [q \in DOMAIN tasks \ {f.position} |-> tasks[q]]
            /\ stack' = [stack EXCEPT ![t] = r.stack]
            /\ thread_current' = [thread_current EXCEPT ![t] = r.current]
    /\ UNCHANGED <<arguments, stable_sort_ties, gi, vvi, gi_sorted, abort_due_to_timeout, aborted,
                   timeout_thread, global_position, global_incumbent, incumbent,
                   per_thread_incumbents, finish, thread_vv, solution_first, assert_failed>>

\* get_help_with, lines 303-308: wait for pending == 0, erase the task
Barrier(t) ==
    /\ stack[t] # << >> /\ IsSearch(Top(t)) /\ Top(t).pc = "barrier"
    /\ LET f == Top(t) IN
       IF tasks[f.position].pending # 0
       THEN /\ stack' = [stack EXCEPT ![t] = SetTop(@, [f EXCEPT !.pc = "barrier_wait"])]
            /\ UNCHANGED <<tasks, thread_current>>
       ELSE \E r \in {resume_caller(Pop(stack[t]), thread_current[t])} :
            /\ tasks' = [q \in DOMAIN tasks \ {f.position} |-> tasks[q]]
            /\ stack' = [stack EXCEPT ![t] = r.stack]
            /\ thread_current' = [thread_current EXCEPT ![t] = r.current]
    /\ UNCHANGED <<arguments, stable_sort_ties, gi, vvi, gi_sorted, abort_due_to_timeout, aborted,
                   timeout_thread, global_position, global_incumbent, incumbent,
                   per_thread_incumbents, finish, thread_vv, solution_first, assert_failed>>

(***************************************************************************)
(* Helper workers (HelpMe::HelpMe, lines 214-255)                           *)
(***************************************************************************)
WorkerFrame == [kind |-> "worker", pc |-> "w_top", task |-> NULL, observed |-> FALSE]

IsWorker(t) == stack[t] # << >> /\ Top(t).kind = "worker"

\* while (! finish.load())
WorkerTop(t) ==
    /\ IsWorker(t) /\ Top(t).pc = "w_top"
    /\ stack' = [stack EXCEPT ![t] =
                   IF finish THEN << >> ELSE SetTop(@, [Top(t) EXCEPT !.pc = "w_scan"])]
    /\ UNCHANGED <<arguments, stable_sort_ties, gi, vvi, gi_sorted, abort_due_to_timeout, aborted,
                   timeout_thread, global_position, global_incumbent, incumbent,
                   per_thread_incumbents, tasks, finish, thread_current, thread_vv, solution_first,
                   assert_failed>>

\* the scan of the task map under the lock: start the first task whose func
\* is not null, or wait on the condition variable
WorkerScan(t) ==
    /\ IsWorker(t) /\ Top(t).pc = "w_scan"
    /\ LET runnable == {q \in DOMAIN tasks : tasks[q].func # NULL} IN
       IF runnable # {}
       THEN LET q == CHOOSE a \in runnable : \A b \in runnable \ {a} : PositionLess(a, b)
                o == tasks[q].func
                pub == stack[o.t][o.idx]
                h == SearchFrame("helper", pub.depth, pub.matching_size_goal, << >>,
                                 pub.position, o)
            IN /\ tasks' = [tasks EXCEPT ![q].pending = @ + 1,
                                          ![q].started = Append(@, t)]
               /\ stack' = [stack EXCEPT ![t] =
                              Append(SetTop(@, [Top(t) EXCEPT !.pc = "w_run", !.task = q]), h)]
       ELSE /\ stack' = [stack EXCEPT ![t] =
                           SetTop(@, [Top(t) EXCEPT !.pc = IF finish THEN "w_top"
                                                           ELSE "w_wait"])]
            /\ UNCHANGED tasks
    /\ UNCHANGED <<arguments, stable_sort_ties, gi, vvi, gi_sorted, abort_due_to_timeout, aborted,
                   timeout_thread, global_position, global_incumbent, incumbent,
                   per_thread_incumbents, finish, thread_current, thread_vv, solution_first, assert_failed>>

\* a helper that starts from the publisher's present current, domains,
\* buffers and partner tuple
HelperStart_by_reference(t) ==
    /\ stack[t] # << >> /\ Top(t).kind = "helper" /\ Top(t).pc = "h_start"
    /\ LET o == Top(t).owner
           pub == stack[o.t][o.idx]
           got == pub.shared_i
           st1 == [stack EXCEPT ![o.t][o.idx].shared_i = @ + 1]
       IN IF got >= pub.i_end
          THEN \E r \in {resume_caller(Pop(st1[t]), thread_current[t])} :
               /\ stack' = [st1 EXCEPT ![t] = r.stack]
               /\ UNCHANGED <<thread_current, thread_vv>>
          ELSE /\ stack' = [st1 EXCEPT ![t] =
                              SetTop(@, [Top(t) EXCEPT
                                  !.pc = "loop",
                                  !.which_i_should_i_run_next = got,
                                  !.domains = pub.domains,
                                  !.soluzione = pub.soluzione,
                                  !.bd_idx = pub.bd_idx,
                                  !.sorted_vv_idx = pub.sorted_vv_idx,
                                  !.i_end = pub.i_end,
                                  !.offered = [i \in NG |-> << >>],
                                  !.window_at_fix = pub.window_at_fix,
                                  !.i = 1, !.w0_index = 0])]
               /\ thread_current' = [thread_current EXCEPT ![t] = thread_current[o.t]]
               /\ thread_vv' = [thread_vv EXCEPT ![t] = thread_vv[o.t]]
    /\ UNCHANGED <<arguments, stable_sort_ties, gi, vvi, gi_sorted, abort_due_to_timeout, aborted,
                   timeout_thread, global_position, global_incumbent, incumbent,
                   per_thread_incumbents, tasks, finish, solution_first, assert_failed>>

\* helper_function, lines 792-802: claim a branch index, then copy the closure
HelperStart(t) ==
    /\ stack[t] # << >> /\ Top(t).kind = "helper" /\ Top(t).pc = "h_start"
    /\ LET o == Top(t).owner
           pub == stack[o.t][o.idx]
           got == pub.shared_i
           st1 == [stack EXCEPT ![o.t][o.idx].shared_i = @ + 1]
       IN IF got >= pub.i_end
          THEN \E r \in {resume_caller(Pop(st1[t]), thread_current[t])} :
               /\ stack' = [st1 EXCEPT ![t] = r.stack]
               /\ UNCHANGED <<thread_current, thread_vv>>
          ELSE /\ stack' = [st1 EXCEPT ![t] =
                              SetTop(@, [Top(t) EXCEPT
                                  !.pc = "loop",
                                  !.which_i_should_i_run_next = got,
                                  !.domains = pub.helper_function.domains,
                                  !.soluzione = pub.helper_function.soluzione,
                                  !.bd_idx = pub.bd_idx,
                                  !.sorted_vv_idx = pub.sorted_vv_idx,
                                  !.i_end = pub.i_end,
                                  !.offered = [i \in NG |-> << >>],
                                  !.window_at_fix = pub.window_at_fix,
                                  !.current_at_entry = pub.helper_function.current,
                                  !.i = 1, !.w0_index = 0])]
               /\ thread_current' = [thread_current EXCEPT ![t] = pub.helper_function.current]
               /\ thread_vv' = [thread_vv EXCEPT ![t] = pub.helper_function.vv]
    /\ UNCHANGED <<arguments, stable_sort_ties, gi, vvi, gi_sorted, abort_due_to_timeout, aborted,
                   timeout_thread, global_position, global_incumbent, incumbent,
                   per_thread_incumbents, tasks, finish, solution_first, assert_failed>>

\* a worker that releases the task and leaves func set
WorkerFinish_keep_func(t) ==
    /\ IsWorker(t) /\ Top(t).pc = "w_finish"
    /\ LET q == Top(t).task
           st1 == [stack EXCEPT ![t] = SetTop(@, [Top(t) EXCEPT !.pc = "w_top", !.task = NULL])]
       IN /\ tasks' = [tasks EXCEPT ![q].pending = @ - 1]
          /\ stack' = IF tasks[q].pending = 1 THEN notify_all(st1) ELSE st1
    /\ thread_current' = [thread_current EXCEPT ![t] = << >>]
    /\ thread_vv' = [thread_vv EXCEPT ![t] = << >>]
    /\ UNCHANGED <<arguments, stable_sort_ties, gi, vvi, gi_sorted, abort_due_to_timeout, aborted,
                   timeout_thread, global_position, global_incumbent, incumbent,
                   per_thread_incumbents, finish, solution_first, assert_failed>>

\* lines 237-243: the helper has returned; clear func, release the task
WorkerFinish(t) ==
    /\ IsWorker(t) /\ Top(t).pc = "w_finish"
    /\ LET q == Top(t).task
           st1 == [stack EXCEPT ![t] = SetTop(@, [Top(t) EXCEPT !.pc = "w_top", !.task = NULL])]
       IN /\ tasks' = [tasks EXCEPT ![q].func = NULL, ![q].pending = @ - 1]
          /\ stack' = IF tasks[q].pending = 1 THEN notify_all(st1) ELSE st1
    /\ thread_current' = [thread_current EXCEPT ![t] = << >>]
    /\ thread_vv' = [thread_vv EXCEPT ![t] = << >>]
    /\ UNCHANGED <<arguments, stable_sort_ties, gi, vvi, gi_sorted, abort_due_to_timeout, aborted,
                   timeout_thread, global_position, global_incumbent, incumbent,
                   per_thread_incumbents, finish, solution_first, assert_failed>>


(***************************************************************************)
(* mcs() and start() on the main thread                                     *)
(***************************************************************************)
\* `ended` keeps, for every search that has come to its end, its goal and what
\* the shared incumbent and abort_due_to_timeout were when mcs() looked at them
McsFrame == [kind |-> "mcs", pc |-> "start", k |-> 0, goal |-> 0, observed |-> FALSE, ended |-> << >>]

IsMcs(pc) == stack[MainThread] # << >> /\ Top(MainThread).kind = "mcs" /\ Top(MainThread).pc = pc

EmptyTasks == [q \in {} |-> NULL]

\* mcs(), lines 1003-1021 / 1035-1043: one search is set up and started, or
\* the big_first loop has run out of goals
McsSearch ==
    /\ IsMcs("start")
    /\ LET f == Top(MainThread)
           n0 == gi_sorted[0].n
           d == initial_domains(gi_sorted)
           goal == IF arguments.big_first THEN n0 - f.k ELSE 1
       IN IF arguments.big_first /\ f.k >= n0
          THEN /\ stack' = [stack EXCEPT ![MainThread] = SetTop(@, [f EXCEPT !.pc = "return"])]
               /\ UNCHANGED <<per_thread_incumbents, tasks, finish, thread_current, thread_vv>>
          ELSE /\ per_thread_incumbents' = [t \in Threads |-> << >>]
               /\ tasks' = EmptyTasks
               /\ finish' = FALSE
               /\ thread_current' = [t \in Threads |-> << >>]
               /\ thread_vv' = [t \in Threads |-> IF t = MainThread THEN d.vtx_buf ELSE << >>]
               /\ stack' = [t \in Threads |->
                              IF t = MainThread
                              THEN << [f EXCEPT !.pc = "search", !.goal = goal],
                                      SearchFrame("par", 0, goal, d.domains, Position0, NULL) >>
                              ELSE << WorkerFrame >>]
    /\ UNCHANGED <<arguments, stable_sort_ties, gi, vvi, gi_sorted, abort_due_to_timeout, aborted,
                   timeout_thread, global_position, global_incumbent, incumbent,
                   solution_first, assert_failed>>

\* kill_workers with finish stored and cv.notify_all() left out
KillWorkers_no_notify ==
    /\ IsMcs("kill")
    /\ finish' = TRUE
    /\ stack' = [stack EXCEPT ![MainThread] =
                   SetTop(@, [Top(MainThread) EXCEPT !.pc = "join"])]
    /\ UNCHANGED <<arguments, stable_sort_ties, gi, vvi, gi_sorted, abort_due_to_timeout, aborted,
                   timeout_thread, global_position, global_incumbent, incumbent,
                   per_thread_incumbents, tasks, thread_current, thread_vv,
                   solution_first, assert_failed>>

\* kill_workers, lines 259-263
KillWorkers ==
    /\ IsMcs("kill")
    /\ finish' = TRUE
    /\ stack' = notify_all([stack EXCEPT ![MainThread] =
                               SetTop(@, [Top(MainThread) EXCEPT !.pc = "join"])])
    /\ UNCHANGED <<arguments, stable_sort_ties, gi, vvi, gi_sorted, abort_due_to_timeout, aborted,
                   timeout_thread, global_position, global_incumbent, incumbent,
                   per_thread_incumbents, tasks, thread_current, thread_vv,
                   solution_first, assert_failed>>

\* a break taken whenever the incumbent does not exceed the goal
big_first_break_early(goal) == global_incumbent <= goal \/ abort_due_to_timeout

\* line 1031: the big_first loop stops
big_first_break(goal) == global_incumbent = goal \/ abort_due_to_timeout

\* the end of an iteration that looks at the main thread's incumbent only
JoinWorkers_main_only ==
    /\ IsMcs("join")
    /\ \A w \in Workers : stack[w] = << >>
    /\ LET f == Top(MainThread)
           stop == big_first_break(f.goal)
       IN /\ incumbent' = IF Len(per_thread_incumbents[MainThread]) > Len(incumbent)
                          THEN per_thread_incumbents[MainThread] ELSE incumbent
          /\ stack' = [stack EXCEPT ![MainThread] =
                         SetTop(@, [(IF arguments.big_first /\ ~stop
                                     THEN [f EXCEPT !.pc = "start", !.k = @ + 1]
                                     ELSE [f EXCEPT !.pc = "return"])
                                    EXCEPT !.ended = Append(@, [goal |-> f.goal,
                                                                value |-> global_incumbent,
                                                                abort |-> abort_due_to_timeout])])]
    /\ UNCHANGED <<arguments, stable_sort_ties, gi, vvi, gi_sorted, abort_due_to_timeout, aborted,
                   timeout_thread, global_position, global_incumbent,
                   per_thread_incumbents, tasks, finish, thread_current, thread_vv,
                   solution_first, assert_failed>>

\* kill_workers has joined every worker; mcs() takes the largest per-thread
\* incumbent (lines 1027-1030 / 1048-1050).  The map is ordered by thread
\* id, which no rule fixes: any thread holding a largest mapping may be the
\* one whose mapping is kept.
JoinWorkers ==
    /\ IsMcs("join")
    /\ \A w \in Workers : stack[w] = << >>
    /\ LET f == Top(MainThread)
           m == Max({Len(per_thread_incumbents[t]) : t \in Threads})
           stop == big_first_break(f.goal)
       IN /\ IF m > Len(incumbent)
             THEN \E t \in Threads :
                     /\ Len(per_thread_incumbents[t]) = m
                     /\ incumbent' = per_thread_incumbents[t]
             ELSE incumbent' = incumbent
          /\ stack' = [stack EXCEPT ![MainThread] =
                         SetTop(@, [(IF arguments.big_first /\ ~stop
                                     THEN [f EXCEPT !.pc = "start", !.k = @ + 1]
                                     ELSE [f EXCEPT !.pc = "return"])
                                    EXCEPT !.ended = Append(@, [goal |-> f.goal,
                                                                value |-> global_incumbent,
                                                                abort |-> abort_due_to_timeout])])]
    /\ UNCHANGED <<arguments, stable_sort_ties, gi, vvi, gi_sorted, abort_due_to_timeout, aborted,
                   timeout_thread, global_position, global_incumbent,
                   per_thread_incumbents, tasks, finish, thread_current, thread_vv,
                   solution_first, assert_failed>>

\* the clean-up of start() with timeout_cv.notify_all() left out
McsReturn_no_notify ==
    /\ IsMcs("return")
    /\ solution_first' = [j \in 1 .. Len(incumbent) |->
                            [i \in NG |-> vvi[i][incumbent[j][i]]]]
    /\ abort_due_to_timeout' = (abort_due_to_timeout \/ timeout_thread # "none")
    /\ stack' = [stack EXCEPT ![MainThread] =
                   SetTop(@, [Top(MainThread) EXCEPT !.pc = "timer_join"])]
    /\ UNCHANGED <<arguments, stable_sort_ties, gi, vvi, gi_sorted, aborted, timeout_thread,
                   global_position, global_incumbent, incumbent,
                   per_thread_incumbents, tasks, finish, thread_current, thread_vv,
                   assert_failed>>

\* start(), lines 1138-1156: mcs() has returned; translate the indices back
\* and release the timer thread: under timeout_mutex, set the flag and
\* notify_all, which takes a timer blocked in wait_until out of it
McsReturn ==
    /\ IsMcs("return")
    /\ solution_first' = [j \in 1 .. Len(incumbent) |->
                            [i \in NG |-> vvi[i][incumbent[j][i]]]]
    /\ abort_due_to_timeout' = (abort_due_to_timeout \/ timeout_thread # "none")
    /\ timeout_thread' = IF timeout_thread = "wait" THEN "woken" ELSE timeout_thread
    /\ stack' = [stack EXCEPT ![MainThread] =
                   SetTop(@, [Top(MainThread) EXCEPT !.pc = "timer_join"])]
    /\ UNCHANGED <<arguments, stable_sort_ties, gi, vvi, gi_sorted, aborted,
                   global_position, global_incumbent, incumbent,
                   per_thread_incumbents, tasks, finish, thread_current, thread_vv,
                   assert_failed>>

\* start(), lines 1157-1187: join the timer, validate the solution
Finish ==
    /\ IsMcs("timer_join")
    /\ timeout_thread \in {"none", "done"}
    /\ stack' = [stack EXCEPT ![MainThread] =
                   SetTop(@, [Top(MainThread) EXCEPT
                                 !.pc = IF check_sol(gi, solution_first)
                                        THEN "done" ELSE "failed"])]
    /\ UNCHANGED <<arguments, stable_sort_ties, gi, vvi, gi_sorted, abort_due_to_timeout, aborted,
                   timeout_thread, global_position, global_incumbent, incumbent,
                   per_thread_incumbents, tasks, finish, thread_current, thread_vv,
                   solution_first, assert_failed>>

(***************************************************************************)
(* The timer thread (start(), lines 1088-1107).  It is at "check" when it   *)
(* is about to lock timeout_mutex and test the loop condition for the first *)
(* time, at "wait" while blocked in wait_until with the mutex released, at  *)
(* "woken" when notify_all has taken it out of wait_until, at "expired"     *)
(* when it has left the loop on the deadline, at "done" when it has ended.  *)
(* The mutex is held only inside single steps.  wait_until is taken to      *)
(* return only on the deadline or on a notification.                        *)
(***************************************************************************)
\* while (! abort_due_to_timeout.load()) wait_until(guard, abort_time): the
\* flag is read as false under the mutex and the thread blocks
TimerCheck ==
    /\ timeout_thread = "check"
    /\ ~abort_due_to_timeout
    /\ timeout_thread' = "wait"
    /\ UNCHANGED <<arguments, stable_sort_ties, gi, vvi, gi_sorted, abort_due_to_timeout, aborted,
                   global_position, global_incumbent, incumbent,
                   per_thread_incumbents, tasks, finish, stack, thread_current,
                   thread_vv, solution_first, assert_failed>>

\* a timer that leaves its loop with the marker unset
Deadline_unmarked ==
    /\ timeout_thread = "wait"
    /\ timeout_thread' = "expired"
    /\ UNCHANGED <<arguments, stable_sort_ties, gi, vvi, gi_sorted, abort_due_to_timeout, aborted,
                   global_position, global_incumbent, incumbent,
                   per_thread_incumbents, tasks, finish, stack, thread_current,
                   thread_vv, solution_first, assert_failed>>

\* wait_until returns cv_status::timeout: aborted = true; break;
Deadline ==
    /\ timeout_thread = "wait"
    /\ aborted' = TRUE
    /\ timeout_thread' = "expired"
    /\ UNCHANGED <<arguments, stable_sort_ties, gi, vvi, gi_sorted, abort_due_to_timeout,
                   global_position, global_incumbent,
                   incumbent, per_thread_incumbents, tasks, finish, stack,
                   thread_current, thread_vv, solution_first, assert_failed>>

\* abort_due_to_timeout.store(true) after the loop (line 1104)
AbortStore ==
    /\ timeout_thread = "expired"
    /\ abort_due_to_timeout' = TRUE
    /\ timeout_thread' = "done"
    /\ UNCHANGED <<arguments, stable_sort_ties, gi, vvi, gi_sorted, aborted,
                   global_position, global_incumbent,
                   incumbent, per_thread_incumbents, tasks, finish, stack,
                   thread_current, thread_vv, solution_first, assert_failed>>

\* the loop condition read as true under the mutex, at the first test or
\* after the main thread's notify_all: the loop is left and the thread ends
TimerWake ==
    /\ timeout_thread \in {"check", "woken"}
    /\ abort_due_to_timeout
    /\ timeout_thread' = "done"
    /\ UNCHANGED <<arguments, stable_sort_ties, gi, vvi, gi_sorted, abort_due_to_timeout, aborted,
                   global_position, global_incumbent, incumbent,
                   per_thread_incumbents, tasks, finish, stack, thread_current,
                   thread_vv, solution_first, assert_failed>>

(***************************************************************************)
(* start(): reading and sorting the graphs                                  *)
(***************************************************************************)
calculate_degrees(g) ==
    [v \in Idx(g.n) |->
        Cardinality({w \in Idx(g.n) : g.adjmat[v][w] % TwoTo16 # 0})
      + Cardinality({w \in Idx(g.n) : g.adjmat[v][w] \div TwoTo16 # 0})]

RECURSIVE degree_insert(_, _, _)
degree_insert(arr, pos, deg) ==
    IF pos > 0 /\ deg[arr[pos]] > deg[arr[pos - 1]]
    THEN degree_insert(Swap(arr, pos, pos - 1), pos - 1, deg)
    ELSE arr

RECURSIVE degree_sort(_, _, _, _)
degree_sort(arr, k, n, deg) ==
    IF k >= n THEN arr ELSE degree_sort(degree_insert(arr, k, deg), k + 1, n, deg)

\* iota, then stable_sort by descending degree (lines 1125-1129)
degree_order(g) == degree_sort([v \in Idx(g.n) |-> v], 1, g.n, calculate_degrees(g))

RECURSIVE add_edges(_, _, _, _)
\* the reader's loop over the edges of the file: <<v, w, label>>
add_edges(g, edges, directed, edge_labelled) ==
    IF edges = {} THEN g
    ELSE LET e == CHOOSE x \in edges : TRUE
         IN add_edges(add_edge(g, e[1], e[2], directed, IF edge_labelled THEN e[3] + 1 ELSE 1),
                      edges \ {e}, directed, edge_labelled)

\* readGraph: n vertices, their labels, the edges
readGraph(n, labels, edges, directed, edge_labelled, vertex_labelled) ==
    LET g0 == [Graph(n) EXCEPT !.label = [v \in Idx(n) |-> IF vertex_labelled THEN labels[v] ELSE 0]]
    IN add_edges(g0, edges, directed, edge_labelled)

(***************************************************************************)
(* The inputs                                                               *)
(***************************************************************************)
Heuristics == {"min_max", "min_min", "min_sum", "min_product"}

Args(k, connected, directed, edge_labelled, big_first, heuristic, threads, timeout) ==
    [arg_num |-> k, connected |-> connected, directed |-> directed,
     edge_labelled |-> edge_labelled, big_first |-> big_first,
     heuristic |-> heuristic, threads |-> threads, timeout |-> timeout]

\* the undirected, unlabelled graphs on n vertices
Pairs(n) == {e \in Idx(n) \X Idx(n) : e[1] < e[2]}
Plain(n) == {readGraph(n, [v \in Idx(n) |-> 0], {<<e[1], e[2], 0>> : e \in E}, FALSE, FALSE, FALSE) :
               E \in SUBSET Pairs(n)}
PlainUpTo(n) == UNION {Plain(m) : m \in 1 .. n}

UGraph(n, E) ==
    readGraph(n, [v \in Idx(n) |-> 0], {<<e[1], e[2], 0>> : e \in E}, FALSE, FALSE, FALSE)

\* vertex-labelled, undirected
LGraph(n, labels, E) ==
    readGraph(n, labels, {<<e[1], e[2], 0>> : e \in E}, FALSE, FALSE, TRUE)

Complete(n) == UGraph(n, Pairs(n))
Path(n) == UGraph(n, {e \in Pairs(n) : e[2] = e[1] + 1})
Cycle(n) == UGraph(n, {e \in Pairs(n) : e[2] = e[1] + 1 \/ (e[1] = 0 /\ e[2] = n - 1)})
TwoEdges == UGraph(4, {<<0, 1>>, <<2, 3>>})

Two(a, b) == [i \in 0 .. 1 |-> IF i = 0 THEN a ELSE b]
Three(a, b, c) == [i \in 0 .. 2 |-> IF i = 0 THEN a ELSE IF i = 1 THEN b ELSE c]

Input(args, ties, graphs) == [arguments |-> args, ties |-> ties, gi |-> graphs]

\* every pair of undirected unlabelled graphs, connected or not, big_first or
\* not, under two of the heuristics, one thread
Exhaustive ==
    {Input(Args(2, c, FALSE, FALSE, b, h, 1, 0), "reversed", Two(a0, a1)) :
        c \in BOOLEAN, b \in BOOLEAN, h \in {"min_max", "min_product"},
        a0 \in PlainUpTo(MaxN), a1 \in PlainUpTo(MaxN)}

\* directed graphs with edge labels: each listed arc is absent or carries
\* one of two labels
Arcs == {<<0, 1>>, <<1, 0>>, <<1, 2>>}
Directed(labelled) ==
    {readGraph(3, [v \in Idx(3) |-> 0], {<<e[1], e[2], lab[e]>> : e \in {x \in Arcs : lab[x] >= 0}},
               TRUE, labelled, FALSE) :
        lab \in [Arcs -> IF labelled THEN {-1, 0, 1} ELSE {-1, 0}]}

MultiwayFor(l) ==
    {Input(Args(2, FALSE, TRUE, l, FALSE, "min_max", 1, 0), "reversed", Two(a0, a1)) :
        a0 \in Directed(l), a1 \in Directed(l)}

Multiway == MultiwayFor(FALSE) \cup MultiwayFor(TRUE)

\* undirected edge-labelled: the multiway filter on symmetric words
EdgeLabelled ==
    {Input(Args(2, c, FALSE, TRUE, FALSE, "min_min", 1, 0), "reversed", Two(a0, a1)) :
        c \in BOOLEAN,
        a0 \in {readGraph(3, [v \in Idx(3) |-> 0], {<<0, 1, x>>, <<1, 2, y>>}, FALSE, TRUE, FALSE) :
                  x \in 0 .. 1, y \in 0 .. 1},
        a1 \in {readGraph(3, [v \in Idx(3) |-> 0], {<<0, 1, x>>, <<0, 2, y>>, <<1, 2, 0>>}, FALSE, TRUE, FALSE) :
                  x \in 0 .. 1, y \in 0 .. 1}}

\* vertex labels and self-loops
VertexLabelled ==
    {Input(Args(2, c, FALSE, FALSE, FALSE, h, 1, 0), "reversed",
           Two(LGraph(3, l0, E0), LGraph(3, l1, E1))) :
        c \in BOOLEAN, h \in {"min_max", "min_product"},
        l0 \in [Idx(3) -> 1 .. 2], l1 \in {l \in [Idx(3) -> 1 .. 2] : l[2] = 2},
        E0 \in {{<<0, 1>>, <<1, 2>>}, {<<0, 1>>, <<1, 2>>, <<0, 0>>}},
        E1 \in {{<<0, 1>>, <<1, 2>>, <<0, 2>>}, {<<0, 1>>, <<2, 2>>}}}

\* three graphs, both outcomes of the axis sort
ThreeGraphs ==
    {Input(Args(3, c, FALSE, FALSE, b, h, 1, 0), ties, Three(a0, a1, a2)) :
        c \in BOOLEAN, b \in BOOLEAN, h \in Heuristics, ties \in {"reversed", "kept"},
        a0 \in PlainUpTo(2), a1 \in PlainUpTo(2), a2 \in {Path(3), Complete(3)}}
    \cup
    {Input(Args(3, FALSE, FALSE, FALSE, FALSE, h, 1, to), ties, Three(Cycle(4), Cycle(4), Cycle(4))) :
        h \in Heuristics, ties \in {"reversed", "kept"}, to \in 0 .. 1}

\* the other documented scenarios, with and without a deadline
Scenarios ==
    {Input(Args(2, c, FALSE, FALSE, b, "min_max", 1, to), ties, g) :
        c \in BOOLEAN, b \in BOOLEAN, to \in 0 .. 1, ties \in {"reversed", "kept"},
        g \in {Two(Complete(4), Complete(3)), Two(Path(4), Path(3)),
               Two(TwoEdges, Complete(2)), Two(TwoEdges, TwoEdges)}}

\* six vertices take the search below split_levels
Deep ==
    {Input(Args(2, c, FALSE, FALSE, FALSE, h, 1, 0), "reversed", g) :
        c \in BOOLEAN, h \in {"min_max", "min_sum"},
        g \in {Two(Complete(6), Complete(6)), Two(Cycle(6), Path(6))}}

\* helper workers
Parallel ==
    {Input(Args(2, c, FALSE, FALSE, c, "min_max", T, to), "reversed", g) :
        T \in 2 .. (1 + MaxHelpers), c \in BOOLEAN, to \in 0 .. 1,
        g \in {Two(Path(3), Complete(2))}}
    \cup
    {Input(Args(3, FALSE, FALSE, FALSE, FALSE, "min_sum", T, 0), "reversed", g) :
        T \in 2 .. (1 + MaxHelpers),
        g \in {Three(Complete(2), Complete(2), Complete(2))}}

\* graphs with no vertex label in common, under big_first
Unmatched ==
    {Input(Args(2, FALSE, FALSE, FALSE, TRUE, "min_max", 1, to), "reversed",
           Two(LGraph(2, [v \in Idx(2) |-> 1], {<<0, 1>>}), LGraph(n, [v \in Idx(n) |-> 2], {}))) :
        to \in 0 .. 1, n \in 1 .. 2}

Inputs ==
    Exhaustive \cup Multiway \cup EdgeLabelled \cup VertexLabelled \cup ThreeGraphs
    \cup Scenarios \cup Deep \cup Parallel \cup Unmatched



start(inputs) ==
    /\ \E inp \in inputs :
          arguments = inp.arguments /\ stable_sort_ties = inp.ties /\ gi = inp.gi
    /\ vvi = [i \in NG |-> degree_order(gi[i])]
    /\ gi_sorted = [i \in NG |-> induced_subgraph(gi[i], vvi[i])]
    /\ abort_due_to_timeout = FALSE
    /\ aborted = FALSE
    /\ timeout_thread = IF arguments.timeout # 0 THEN "check" ELSE "none"
    /\ global_position = 0
    /\ global_incumbent = 0
    /\ incumbent = << >>
    /\ per_thread_incumbents = [t \in Threads |-> << >>]
    /\ tasks = EmptyTasks
    /\ finish = FALSE
    /\ stack = [t \in Threads |-> IF t = MainThread THEN << McsFrame >> ELSE << >>]
    /\ thread_current = [t \in Threads |-> << >>]
    /\ thread_vv = [t \in Threads |-> << >>]
    /\ solution_first = << >>
    /\ assert_failed = FALSE

Init == start(Inputs)

Next ==
    \/ TimerCheck \/ Deadline \/ AbortStore \/ TimerWake
    \/ \E t \in Threads : WorkerTop(t)
    \/ \E t \in Threads : WorkerScan(t)
    \/ \E t \in Threads : WorkerFinish(t)
    \/ \E t \in Threads : HelperStart(t)
    \/ \E t \in Threads : Enter(t)
    \/ \E t \in Threads : Publish(t)
    \/ \E t \in Threads : AbortCheck(t)
    \/ \E t \in Threads : Claim(t)
    \/ \E t \in Threads : Barrier(t)
    \/ \E t \in Threads : Goal(t)
    \/ \E t \in Threads : Bound(t)
    \/ \E t \in Threads : Loop(t)
    \/ KillWorkers \/ JoinWorkers \/ McsSearch \/ McsReturn \/ Finish

vars == <<arguments, stable_sort_ties, gi, vvi, gi_sorted, abort_due_to_timeout, aborted, timeout_thread,
          global_position, global_incumbent, incumbent, per_thread_incumbents, tasks,
          finish, stack, thread_current, thread_vv, solution_first, assert_failed>>

Spec == Init /\ [][Next]_vars

(***************************************************************************)
(* Fair scheduling: while some thread can take a step, a step is taken.     *)
(* Nothing is assumed about which thread runs, nor about whether the        *)
(* deadline passes.                                                         *)
(***************************************************************************)
FairInputs ==
    {Input(Args(2, c, FALSE, FALSE, c, "min_max", T, to), "reversed",
           Two(Complete(m), Complete(1))) :
        m \in 1 .. 2, T \in 1 .. (1 + MaxHelpers), c \in BOOLEAN, to \in 0 .. 1}
    \cup
    {Input(Args(2, c, FALSE, FALSE, c, "min_max", 1, to), "reversed",
           Two(Path(3), Complete(2))) : c \in BOOLEAN, to \in 0 .. 1}

FairSpec ==
    /\ start(FairInputs)
    /\ [][Next]_vars
    /\ WF_vars(Next)

(***************************************************************************)
(* The first selection of a search on K graphs of MaxSelectN vertices with *)
(* two vertex labels: start() up to the point where the root call has       *)
(* chosen its multi-domain                                                   *)
(***************************************************************************)
MaxSelectN == 10

SelectInputs ==
    {Input(Args(K, c, FALSE, FALSE, b, h, 1, 0), "reversed",
           [i \in Idx(K) |-> LGraph(MaxSelectN, [v \in Idx(MaxSelectN) |-> IF v < m THEN 2 ELSE 1], {})]) :
        K \in {2, 10}, c \in BOOLEAN, b \in BOOLEAN, h \in Heuristics, m \in 1 .. 3}

SelectNext ==
    \/ McsSearch
    \/ \E t \in Threads : Enter(t)
    \/ \E t \in Threads : Bound(t)
    \/ \E t \in Threads : Goal(t)

SelectSpec == start(SelectInputs) /\ [][SelectNext]_vars

(***************************************************************************)
(* The first call of filter_domains of a search: start() up to the point    *)
(* where the root call has filtered the domains for its first tuple.        *)
(* Eight graphs of MaxFilterN vertices give windows of 16 vertices in each  *)
(* graph.                                                                    *)
(***************************************************************************)
MaxFilterN == 17

FilterInputs ==
    {Input(Args(8, FALSE, d, FALSE, FALSE, "min_max", 1, 0), "reversed",
           [i \in Idx(8) |-> readGraph(MaxFilterN, [v \in Idx(MaxFilterN) |-> 0], E, d, FALSE, FALSE)]) :
        d \in BOOLEAN, E \in {{}, {<<0, e[2], 0>> : e \in {x \in Pairs(MaxFilterN) : x[1] = 0}}}}
    \cup
    {Input(Args(2, c, FALSE, FALSE, FALSE, "min_max", 1, 0), "reversed", Two(a0, a1)) :
        c \in BOOLEAN, a0 \in Plain(3), a1 \in Plain(3)}

FilterNext ==
    \/ McsSearch
    \/ \E t \in Threads : Enter(t)
    \/ \E t \in Threads : Bound(t)
    \/ \E t \in Threads : Publish(t)
    \/ \E t \in Threads : Loop(t)
    \/ \E t \in Threads : Claim(t)

FilterSpec == start(FilterInputs) /\ [][FilterNext]_vars

(***************************************************************************)
(* A pool of two helper workers on small graphs: several workers inside    *)
(* the helper_function of one task.                                        *)
(***************************************************************************)
PoolThreads == 3

PoolInputs ==
    {Input(Args(2, c, FALSE, FALSE, c, "min_max", PoolThreads, 0), "reversed",
           Two(Complete(2), Complete(1))) : c \in BOOLEAN}
    \cup
    {Input(Args(2, FALSE, FALSE, FALSE, FALSE, "min_max", PoolThreads, 1), "reversed",
           Two(Complete(1), Complete(1)))}

PoolSpec == start(PoolInputs) /\ [][Next]_vars

(***************************************************************************)
(* check_sol on any mapping: start() from the point where mcs() has         *)
(* returned and the indices are translated                                  *)
(***************************************************************************)
\* longest mapping handed to check_sol
MaxTuples == 2

Mappings(n0, n1) ==
    UNION {[1 .. k -> {Two(v, w) : v \in Idx(n0), w \in Idx(n1)}] : k \in 0 .. MaxTuples}

CheckSolInit ==
    /\ arguments = Args(2, FALSE, FALSE, FALSE, FALSE, "min_max", 1, 0)
    /\ stable_sort_ties = "reversed"
    /\ \E l0, l1 \in [Idx(2) -> 1 .. 2], E0, E1 \in SUBSET Pairs(2) :
          gi = Two(LGraph(2, l0, E0), LGraph(2, l1, E1))
    /\ vvi = [i \in NG |-> degree_order(gi[i])]
    /\ gi_sorted = [i \in NG |-> induced_subgraph(gi[i], vvi[i])]
    /\ abort_due_to_timeout = FALSE
    /\ aborted = FALSE
    /\ timeout_thread = "none"
    /\ global_position = 0
    /\ global_incumbent = 0
    /\ incumbent = << >>
    /\ per_thread_incumbents = [t \in Threads |-> << >>]
    /\ tasks = EmptyTasks
    /\ finish = TRUE
    /\ stack = [t \in Threads |-> << [McsFrame EXCEPT !.pc = "timer_join"] >>]
    /\ thread_current = [t \in Threads |-> << >>]
    /\ thread_vv = [t \in Threads |-> << >>]
    /\ solution_first \in Mappings(2, 2)
    /\ assert_failed = FALSE

CheckSolSpec == CheckSolInit /\ [][Finish]_vars

(***************************************************************************)
(* The translation of the indices: start() from the point where mcs() has   *)
(* returned, for any mapping mcs() could hand back                          *)
(***************************************************************************)
RemapGraphs ==
    {LGraph(3, l, E) : l \in {[v \in Idx(3) |-> 1], [v \in Idx(3) |-> IF v = 2 THEN 2 ELSE 1]},
                       E \in SUBSET Pairs(3)}

RemapInit ==
    /\ arguments = Args(2, FALSE, FALSE, FALSE, FALSE, "min_max", 1, 0)
    /\ stable_sort_ties = "reversed"
    /\ \E a0, a1 \in RemapGraphs : gi = Two(a0, a1)
    /\ vvi = [i \in NG |-> degree_order(gi[i])]
    /\ gi_sorted = [i \in NG |-> induced_subgraph(gi[i], vvi[i])]
    /\ abort_due_to_timeout = FALSE
    /\ aborted = FALSE
    /\ timeout_thread = "none"
    /\ global_position = 0
    /\ global_incumbent = 0
    /\ incumbent \in Mappings(3, 3)
    /\ per_thread_incumbents = [t \in Threads |-> << >>]
    /\ tasks = EmptyTasks
    /\ finish = TRUE
    /\ stack = [t \in Threads |-> << [McsFrame EXCEPT !.pc = "return"] >>]
    /\ thread_current = [t \in Threads |-> << >>]
    /\ thread_vv = [t \in Threads |-> << >>]
    /\ solution_first = << >>
    /\ assert_failed = FALSE

RemapSpec == RemapInit /\ [][McsReturn]_vars

(***************************************************************************)
(* What the search has to compute, stated without the search                *)
(***************************************************************************)
Done == IsMcs("done") \/ IsMcs("failed")

\* a sequence of tuples uses each vertex of each graph at most once
Injective(m) ==
    \A i, j \in 1 .. Len(m) : i # j => \A k \in NG : m[i][k] # m[j][k]

LabelConsistent(g, m) ==
    \A i \in 1 .. Len(m) : \A k \in NG : g[0].label[m[i][0]] = g[k].label[m[i][k]]

EdgeConsistent(g, m) ==
    \A i, j \in 1 .. Len(m) : i # j =>
        \A k \in NG : g[0].adjmat[m[i][0]][m[j][0]] = g[k].adjmat[m[i][k]][m[j][k]]

Common(g, m) == Injective(m) /\ LabelConsistent(g, m) /\ EdgeConsistent(g, m)

Tuples(g) == {t \in [NG -> Idx(Max({g[k].n : k \in NG}))] : \A k \in NG : t[k] < g[k].n}

RECURSIVE AllCommon(_, _, _)
\* every common induced subgraph of the graphs g that extends m by
\* vertices v, v+1, ... of graph 0
AllCommon(g, v, m) ==
    IF v >= g[0].n THEN {m}
    ELSE AllCommon(g, v + 1, m)
         \cup UNION {AllCommon(g, v + 1, Append(m, t)) :
                        t \in {u \in Tuples(g) : u[0] = v /\ Common(g, Append(m, u))}}

RECURSIVE Reach(_, _, _)
Reach(g, S, R) ==
    LET R1 == R \cup {w \in S : \E v \in R : g.adjmat[v][w] # 0 \/ g.adjmat[w][v] # 0}
    IN IF R1 = R THEN R ELSE Reach(g, S, R1)

\* the vertices S induce a connected subgraph of g
ConnectedIn(g, S) == S = {} \/ Reach(g, S, {CHOOSE v \in S : TRUE}) = S

ConnectedMapping(g, m) ==
    \A k \in NG : ConnectedIn(g[k], {m[i][k] : i \in 1 .. Len(m)})

MaxCommon(g) == Max({Len(m) : m \in AllCommon(g, 0, << >>)})

MaxCommonConnected(g) ==
    Max({Len(m) : m \in {x \in AllCommon(g, 0, << >>) : ConnectedMapping(g, x)}})


\* the tuples that take one vertex from each window of d
DomainTuples(g, vv, d) == {u \in Tuples(g) : \A i \in NG : u[i] \in Window(vv, d, i)}

RECURSIVE Extensions(_, _, _, _, _)
\* every common induced subgraph that extends m by tuples drawn from the
\* multi-domains; C holds the pairs <<d, v>> of a multi-domain and a vertex
\* of its window in graph 0 that are still to be decided
Extensions(g, vv, domains, C, m) ==
    IF C = {} THEN {m}
    ELSE LET c == CHOOSE x \in C : TRUE
             rest == C \ {c}
         IN Extensions(g, vv, domains, rest, m)
            \cup UNION {Extensions(g, vv, domains, rest, Append(m, u)) :
                           u \in {w \in DomainTuples(g, vv, domains[c[1]]) :
                                     w[0] = c[2] /\ Common(g, Append(m, w))}}

\* the largest number of tuples such an extension adds to cur
MaxExtension(g, cur, vv, domains) ==
    LET C == {c \in (1 .. Len(domains)) \X Idx(g[0].n) : c[2] \in Window(vv, domains[c[1]], 0)}
    IN Max({Len(m) - Len(cur) : m \in Extensions(g, vv, domains, C, cur)})

\* thread t is at the first statement of sorted_solve or sorted_solve_nopar
AtEntry(t) == stack[t] # << >> /\ IsSearch(Top(t)) /\ Top(t).pc = "entry"

\* mcs() has returned `incumbent` to start()
Returned == IsMcs("return")

\* largest graph on which the recursive function mcs is evaluated
MaxKernelN == 4
KernelRange == \A i \in NG : gi[i].n <= MaxKernelN

(***************************************************************************)
(* AtomicIncumbent::update statement by statement (lines 91-103), called    *)
(* by several threads at once with any arguments.  A frame of update keeps  *)
(* v, the local cur_v and the value returned; `changed` and `from` record   *)
(* whether this call's compare_exchange_strong stored v, and over which     *)
(* value.                                                                   *)
(***************************************************************************)
\* threads calling update, and the largest argument
UpdateThreads == 2
MaxValue == 3

UpdateFrame(v) ==
    [kind |-> "update", pc |-> "load", v |-> v, cur_v |-> 0, ret |-> FALSE,
     changed |-> FALSE, from |-> 0]

InUpdate(t, pc) == stack[t] # << >> /\ Top(t).kind = "update" /\ Top(t).pc = pc

UpdateInit ==
    /\ arguments = Args(2, FALSE, FALSE, FALSE, FALSE, "min_max", UpdateThreads, 0)
    /\ stable_sort_ties = "reversed"
    /\ gi = Two(Complete(1), Complete(1))
    /\ vvi = [i \in NG |-> degree_order(gi[i])]
    /\ gi_sorted = [i \in NG |-> induced_subgraph(gi[i], vvi[i])]
    /\ abort_due_to_timeout = FALSE
    /\ aborted = FALSE
    /\ timeout_thread = "none"
    /\ global_position = 0
    /\ global_incumbent = 0
    /\ incumbent = << >>
    /\ per_thread_incumbents = [t \in Threads |-> << >>]
    /\ tasks = EmptyTasks
    /\ finish = FALSE
    /\ stack = [t \in Threads |-> << >>]
    /\ thread_current = [t \in Threads |-> << >>]
    /\ thread_vv = [t \in Threads |-> << >>]
    /\ solution_first = << >>
    /\ assert_failed = FALSE

\* a thread calls update(v)
UpdateCall(t, v) ==
    /\ stack[t] = << >>
    /\ stack' = [stack EXCEPT ![t] = << UpdateFrame(v) >>]
    /\ UNCHANGED <<arguments, stable_sort_ties, gi, vvi, gi_sorted, abort_due_to_timeout, aborted,
                   timeout_thread, global_position, global_incumbent, incumbent,
                   per_thread_incumbents, tasks, finish, thread_current, thread_vv,
                   solution_first, assert_failed>>

\* unsigned cur_v = value.load(); if (v > cur_v) ... else return false;
UpdateLoad(t) ==
    /\ InUpdate(t, "load")
    /\ stack' = [stack EXCEPT ![t] =
                   SetTop(@, [Top(t) EXCEPT !.cur_v = global_incumbent,
                                            !.pc = IF Top(t).v > global_incumbent
                                                   THEN "cas" ELSE "done",
                                            !.ret = FALSE])]
    /\ UNCHANGED <<arguments, stable_sort_ties, gi, vvi, gi_sorted, abort_due_to_timeout, aborted,
                   timeout_thread, global_position, global_incumbent, incumbent,
                   per_thread_incumbents, tasks, finish, thread_current, thread_vv,
                   solution_first, assert_failed>>

\* a plain store in place of the compare-and-exchange
UpdateCas_store(t) ==
    /\ InUpdate(t, "cas")
    /\ global_incumbent' = Top(t).v
    /\ stack' = [stack EXCEPT ![t] =
                   SetTop(@, [Top(t) EXCEPT !.pc = "done", !.ret = TRUE,
                                            !.changed = TRUE,
                                            !.from = global_incumbent])]
    /\ UNCHANGED <<arguments, stable_sort_ties, gi, vvi, gi_sorted, abort_due_to_timeout, aborted,
                   timeout_thread, global_position, incumbent,
                   per_thread_incumbents, tasks, finish, thread_current, thread_vv,
                   solution_first, assert_failed>>

\* if (value.compare_exchange_strong(cur_v, v)) return true; else the loop
\* goes round
UpdateCas(t) ==
    /\ InUpdate(t, "cas")
    /\ IF global_incumbent = Top(t).cur_v
       THEN /\ global_incumbent' = Top(t).v
            /\ stack' = [stack EXCEPT ![t] =
                           SetTop(@, [Top(t) EXCEPT !.pc = "done", !.ret = TRUE,
                                                    !.changed = TRUE,
                                                    !.from = global_incumbent])]
       ELSE /\ global_incumbent' = global_incumbent
            /\ stack' = [stack EXCEPT ![t] =
                           SetTop(@, [Top(t) EXCEPT !.pc = "load",
                                                    !.cur_v = global_incumbent])]
    /\ UNCHANGED <<arguments, stable_sort_ties, gi, vvi, gi_sorted, abort_due_to_timeout, aborted,
                   timeout_thread, global_position, incumbent,
                   per_thread_incumbents, tasks, finish, thread_current, thread_vv,
                   solution_first, assert_failed>>

\* update has returned to its caller
UpdateReturn(t) ==
    /\ InUpdate(t, "done")
    /\ stack' = [stack EXCEPT ![t] = << >>]
    /\ UNCHANGED <<arguments, stable_sort_ties, gi, vvi, gi_sorted, abort_due_to_timeout, aborted,
                   timeout_thread, global_position, global_incumbent, incumbent,
                   per_thread_incumbents, tasks, finish, thread_current, thread_vv,
                   solution_first, assert_failed>>

UpdateNext ==
    \/ \E t \in Threads : \E v \in 0 .. MaxValue : UpdateCall(t, v)
    \/ \E t \in Threads : UpdateLoad(t)
    \/ \E t \in Threads : UpdateCas(t)
    \/ \E t \in Threads : UpdateReturn(t)

UpdateSpec == UpdateInit /\ [][UpdateNext]_vars

C2_EdgeConsistency ==
    /\ Returned => EdgeConsistent(gi_sorted, incumbent)
    /\ Done => EdgeConsistent(gi, solution_first)

\* a returned mapping of the multiway filter with a labelled or reverse arc
C2_Witness ==
    /\ Returned /\ multiway
    /\ \E i, j \in 1 .. Len(incumbent) :
          i # j /\ gi_sorted[0].adjmat[incumbent[i][0]][incumbent[j][0]] > 1

(***************************************************************************)
(* C3: in the mapping mcs() returns, the vertices of a tuple carry the      *)
(* same label in every graph.                                               *)
(***************************************************************************)
C3_LabelConsistency ==
    /\ Returned => LabelConsistent(gi_sorted, incumbent)
    /\ Done => LabelConsistent(gi, solution_first)

\* a returned mapping with two labels, one of them of a vertex with a loop
C3_Witness ==
    /\ Returned
    /\ \E i, j \in 1 .. Len(incumbent) :
          /\ gi_sorted[0].label[incumbent[i][0]] < 0
          /\ gi_sorted[0].label[incumbent[j][0]] > 0

(***************************************************************************)
(* C4: every per-thread incumbent, at any time, and the mapping mcs()       *)
(* returns use each vertex of each graph in at most one tuple.              *)
(***************************************************************************)
C4_Injectivity ==
    /\ \A t \in Threads : Injective(per_thread_incumbents[t])
    /\ Injective(incumbent)
    /\ Injective(solution_first)

\* a helper worker holds a mapping of three graphs with two tuples
C4_Witness ==
    /\ arguments.arg_num = 3
    /\ \E t \in Workers : Len(per_thread_incumbents[t]) >= 2

(***************************************************************************)
(* C5: with no abort, whatever the interleaving of the main thread and the  *)
(* helper workers, mcs() returns as many tuples as it returns on one        *)
(* thread, which is what the function mcs computes.                         *)
(***************************************************************************)
C5_SameCardinalityAsOneThread ==
    Returned /\ ~aborted /\ KernelRange =>
        Len(incumbent) = Len(mcs(gi_sorted, arguments.big_first))

\* the mapping returned was found by a helper worker, the main thread's is
\* shorter
C5_Witness ==
    /\ Returned /\ ~aborted /\ arguments.threads > 1
    /\ Len(incumbent) >= 2
    /\ Len(per_thread_incumbents[MainThread]) < Len(incumbent)
    /\ \E t \in Workers : incumbent = per_thread_incumbents[t]

(***************************************************************************)
(* C6: when the deadline has passed, the mapping mcs() returns is still     *)
(* label consistent, edge consistent and injective, and has at most as      *)
(* many tuples as mcs() returns for the same input when abort is never      *)
(* raised.                                                                  *)
(***************************************************************************)
C6_AbortedResult ==
    /\ Returned /\ aborted /\ KernelRange =>
          /\ Common(gi_sorted, incumbent)
          /\ Len(incumbent) <= Len(mcs(gi_sorted, arguments.big_first))
    /\ Done /\ aborted => Common(gi, solution_first)

\* the abort cut the search short: a mapping is returned, and it is smaller
C6_Witness ==
    /\ Returned /\ aborted
    /\ Len(incumbent) >= 1
    /\ Len(incumbent) < Len(mcs(gi_sorted, arguments.big_first))

(***************************************************************************)
(* C7: mcs() terminates, whether or not the deadline passes: under fair     *)
(* scheduling of the threads every run reaches the end of start().          *)
(***************************************************************************)
C7_Termination == <>Done

\* the deadline passed before any thread recorded a tuple: main and helper
\* frames returned, the workers were joined and start() came to its end
C7_Witness ==
    /\ Done /\ aborted /\ arguments.threads > 1
    /\ finish /\ \A t \in Workers : stack[t] = << >>
    /\ incumbent = << >>

(***************************************************************************)
(* C8: in connected mode every mapping recorded as an incumbent, and the    *)
(* returned one, induces a connected subgraph of each graph; and a step     *)
(* in which a frame selects a multi-domain while current is not empty       *)
(* selects one whose is_adjacent flag is set.                               *)
(***************************************************************************)
C8_Connected ==
    /\ [](arguments.connected =>
            /\ \A t \in Threads : ConnectedMapping(gi_sorted, per_thread_incumbents[t])
            /\ ConnectedMapping(gi_sorted, incumbent)
            /\ ConnectedMapping(gi, solution_first))
    /\ [][arguments.connected =>
            \A t \in Threads :
               /\ stack[t] # << >> /\ IsSearch(Top(t)) /\ Top(t).pc \in {"bound", "goal"}
               /\ Len(stack'[t]) = Len(stack[t])
               /\ stack'[t][Len(stack[t])].pc \in {"publish", "loop"}
               /\ Len(thread_current[t]) > 0
               => LET f == stack'[t][Len(stack[t])]
                  IN f.domains[f.bd_idx + 1].is_adjacent]_vars

\* a frame branches on an adjacent multi-domain while a multi-domain that is
\* not adjacent still has candidates in every graph
C8_Witness ==
    /\ arguments.connected
    /\ \E t \in Threads :
          /\ stack[t] # << >> /\ IsSearch(Top(t)) /\ Top(t).pc = "loop"
          /\ Len(thread_current[t]) > 0
          /\ \E d \in 1 .. Len(Top(t).domains) :
                /\ ~Top(t).domains[d].is_adjacent
                /\ \A i \in NG : Top(t).domains[d].len[i] > 0

(***************************************************************************)
(* C9: with big_first on and no abort, mcs() returns as many tuples as it   *)
(* does with big_first off, which is what the function mcs computes for     *)
(* big_first = FALSE.                                                       *)
(***************************************************************************)
C9_BigFirstSameCardinality ==
    Returned /\ ~aborted /\ arguments.big_first /\ KernelRange =>
        Len(incumbent) = Len(mcs(gi_sorted, FALSE))

\* the first goal failed, a later one was met
C9_Witness ==
    /\ Returned /\ ~aborted /\ arguments.big_first
    /\ Top(MainThread).k >= 1
    /\ Len(incumbent) >= 2

(***************************************************************************)
(* C10: check_sol returns false, and start() fails, for every mapping with  *)
(* a vertex-label mismatch, an adjacency-word mismatch or a vertex of some  *)
(* graph used in two tuples: start() succeeds only on a common subgraph.    *)
(***************************************************************************)
C10_RejectsInvalid == IsMcs("done") => Common(gi, solution_first)

(***************************************************************************)
(* C11: the graphs mcs() works on are the input graphs permuted by          *)
(* descending degree, every returned index x of graph i is translated to    *)
(* vvi[i][x], and so a mapping that is label consistent or edge consistent  *)
(* on the sorted graphs is so on the input graphs, with as many tuples.     *)
(***************************************************************************)
C11_Remap ==
    /\ \A i \in NG :
          /\ {vvi[i][x] : x \in Idx(gi[i].n)} = Idx(gi[i].n)
          /\ \A x, y \in Idx(gi[i].n) :
                x < y => calculate_degrees(gi[i])[vvi[i][x]] >= calculate_degrees(gi[i])[vvi[i][y]]
          /\ gi_sorted[i] = induced_subgraph(gi[i], vvi[i])
    /\ IsMcs("timer_join") =>
          /\ Len(solution_first) = Len(incumbent)
          /\ \A j \in 1 .. Len(incumbent) : \A i \in NG :
                solution_first[j][i] = vvi[i][incumbent[j][i]]
          /\ LabelConsistent(gi_sorted, incumbent) => LabelConsistent(gi, solution_first)
          /\ EdgeConsistent(gi_sorted, incumbent) => EdgeConsistent(gi, solution_first)

\* a consistent mapping of two tuples was translated, and the translation
\* moved every index of graph 0
C11_Witness ==
    /\ IsMcs("timer_join")
    /\ Len(incumbent) = 2
    /\ LabelConsistent(gi_sorted, incumbent) /\ EdgeConsistent(gi_sorted, incumbent)
    /\ \A j \in 1 .. 2 : solution_first[j][0] # incumbent[j][0]
    /\ \E v \in Idx(3) : gi[0].label[v] = 2

(***************************************************************************)
(* C12: up to the moment start() releases the timer, the abort flag is set  *)
(* only after the timer has set `aborted`, and `aborted` is never reset: a  *)
(* run that ends without the TIMEOUT marker never had the abort flag set    *)
(* while mcs() was running, and its mapping is that of a search run to      *)
(* exhaustion (a maximum one, among the connected ones in connected mode).  *)
(***************************************************************************)
C12_NoMarkerNoAbort ==
    /\ [](abort_due_to_timeout /\ ~IsMcs("timer_join") /\ ~Done => aborted)
    /\ [][aborted => aborted']_vars
    /\ [](Done /\ ~aborted =>
            Len(solution_first) = IF arguments.connected THEN MaxCommonConnected(gi)
                                  ELSE MaxCommon(gi))

\* a run with an armed timer that ended without the marker
C12_Witness ==
    /\ Done /\ ~aborted /\ arguments.timeout # 0
    /\ timeout_thread = "done"
    /\ Len(solution_first) >= 2

(***************************************************************************)
(* C13: at every entry of sorted_solve and sorted_solve_nopar, no common    *)
(* induced subgraph that extends `current` by tuples taking one vertex      *)
(* from each window of a multi-domain of `domains` adds more than           *)
(* calc_bound(domains) tuples.                                              *)
(***************************************************************************)
C13_Admissible ==
    KernelRange =>
        \A t \in Threads :
            AtEntry(t) => MaxExtension(gi_sorted, thread_current[t], thread_vv[t], Top(t).domains)
                            <= calc_bound(Top(t).domains)

\* an entry below the root with two multi-domains, where the bound is
\* reached by an extension
C13_Witness ==
    /\ KernelRange
    /\ \E t \in Threads :
          /\ AtEntry(t) /\ Len(thread_current[t]) >= 1
          /\ Cardinality({d \in 1 .. Len(Top(t).domains) :
                             \A i \in NG : Top(t).domains[d].len[i] > 0}) >= 2
          /\ MaxExtension(gi_sorted, thread_current[t], thread_vv[t], Top(t).domains)
               = calc_bound(Top(t).domains)

\* a frame of sorted_solve or sorted_solve_nopar whose bound test (line
\* 606 / 725) has let the call continue
PastBound(f) == f.kind \in {"par", "nopar"} /\ f.pc \notin {"entry", "bound"}

(***************************************************************************)
(* C14 as stated: at every recursion entry, current.size() plus            *)
(* calc_bound(domains) is at least the number of tuples mcs() returns.     *)
(* Stated for runs of one thread without a timer, where mcs() returns what *)
(* the function mcs computes.                                              *)
(***************************************************************************)
C14_AsStated ==
    (KernelRange /\ arguments.timeout = 0 /\ arguments.threads = 1) =>
        \A t \in Threads :
            AtEntry(t) => Len(thread_current[t]) + calc_bound(Top(t).domains)
                            >= Len(mcs(gi_sorted, arguments.big_first))

(***************************************************************************)
(* C14: the bound of a call that passed its bound test is at least the     *)
(* size of every mapping its thread has recorded, during that call         *)
(* included; and the bound of the root entry, calc_bound of the initial    *)
(* domains with `current` empty, is at least the size of the mapping mcs() *)
(* returns.                                                                *)
(***************************************************************************)
C14_BoundDominates ==
    /\ \A t \in Threads : \A k \in 1 .. Len(stack[t]) :
          (IsSearch(stack[t][k]) /\ PastBound(stack[t][k]))
              => Len(per_thread_incumbents[t]) <= stack[t][k].bound
    /\ Returned => Len(incumbent) <= calc_bound(initial_domains(gi_sorted).domains)

\* a call below the root that passed its bound test with a bound smaller
\* than the root's, while its thread already holds a mapping of that size
C14_Witness ==
    \E t \in Threads : \E k \in 1 .. Len(stack[t]) :
        /\ IsSearch(stack[t][k]) /\ PastBound(stack[t][k])
        /\ stack[t][k].depth >= 1
        /\ stack[t][k].bound < calc_bound(initial_domains(gi_sorted).domains)
        /\ Len(per_thread_incumbents[t]) = stack[t][k].bound
        /\ Len(per_thread_incumbents[t]) >= 2

\* a frame of sorted_solve that has fixed its pivot and counted its branches
HasBranches(f) == f.kind = "par" /\ f.pc \notin {"entry", "bound", "goal"}

(***************************************************************************)
(* C15: within one published frame no branch index is run twice, by the    *)
(* main thread or by any helper; and when the frame stands at the barrier  *)
(* of get_help_with with no helper pending and abort_due_to_timeout has    *)
(* not been set, every index 0 .. i_end - 1 has been run exactly once.     *)
(***************************************************************************)
C15_EachBranchOnce ==
    \A t \in Threads : \A k \in 1 .. Len(stack[t]) :
        LET f == stack[t][k] IN
        (IsSearch(f) /\ HasBranches(f)) =>
            /\ Len(f.executed) = f.i_end
            /\ \A j \in 1 .. f.i_end : Len(f.executed[j]) <= 1
            /\ (/\ f.pc = "barrier" /\ tasks[f.position].pending = 0
                /\ ~abort_due_to_timeout)
                 => \A j \in 1 .. f.i_end : Len(f.executed[j]) = 1

\* a frame with at least three branch indexes at its barrier, complete,
\* some run by its own thread and some by a helper; the timer never fired
C15_Witness ==
    \E t \in Threads : \E k \in 1 .. Len(stack[t]) :
        LET f == stack[t][k] IN
        /\ IsSearch(f) /\ HasBranches(f)
        /\ f.pc = "barrier" /\ tasks[f.position].pending = 0
        /\ ~abort_due_to_timeout
        /\ f.i_end >= 3
        /\ \A j \in 1 .. f.i_end : Len(f.executed[j]) = 1
        /\ \E j \in 1 .. f.i_end : f.executed[j] = <<t>>
        /\ \E j \in 1 .. f.i_end : f.executed[j] # <<t>>

\* the frames of helper_function on the stack of thread t
HelperFrames(t) == {k \in 1 .. Len(stack[t]) : stack[t][k].kind = "helper"}

\* the frames of sorted_solve that are inside get_help_with, of any thread
InGetHelpWith ==
    UNION {{[t |-> t, idx |-> k] :
               k \in {j \in 1 .. Len(stack[t]) :
                         stack[t][j].kind = "par" /\ stack[t][j].published}} :
           t \in Threads}

(***************************************************************************)
(* C16: a task entry exists exactly while its publisher is inside          *)
(* get_help_with, so the call returns with the entry erased; an entry is   *)
(* erased only when its pending count is 0; and every helper_function being *)
(* run, and every worker between its `++pending` and its `--pending`,       *)
(* belongs to a publisher that is still inside get_help_with.              *)
(***************************************************************************)
C16_ReturnsAfterHelpers ==
    /\ [](/\ \A o \in InGetHelpWith : stack[o.t][o.idx].position \in DOMAIN tasks
          /\ \A q \in DOMAIN tasks : \E o \in InGetHelpWith : stack[o.t][o.idx].position = q
          /\ \A q \in DOMAIN tasks :
                tasks[q].pending =
                    Cardinality({w \in Threads :
                        \E k \in 1 .. Len(stack[w]) :
                            /\ stack[w][k].kind = "worker"
                            /\ stack[w][k].pc \in {"w_run", "w_finish"}
                            /\ stack[w][k].task = q})
          /\ \A w \in Threads : \A k \in 1 .. Len(stack[w]) :
                (stack[w][k].kind = "worker" /\ stack[w][k].pc \in {"w_run", "w_finish"})
                    => stack[w][k].task \in DOMAIN tasks
          /\ \A w \in Threads : \A k \in HelperFrames(w) :
                LET o == stack[w][k].owner IN
                /\ o \in InGetHelpWith
                /\ stack[o.t][o.idx].position = stack[w][k].position
                /\ stack[w][k].position \in DOMAIN tasks
                /\ tasks[stack[w][k].position].pending >= 1)
    /\ [][\A q \in DOMAIN tasks : q \notin DOMAIN tasks' => tasks[q].pending = 0]_vars

\* the publisher has finished main_function and is blocked in get_help_with
\* while a worker is still inside the helper_function of its task
C16_Witness ==
    \E o \in InGetHelpWith :
        /\ stack[o.t][o.idx].pc = "barrier_wait"
        /\ tasks[stack[o.t][o.idx].position].pending >= 1
        /\ \E w \in Workers : \E k \in HelperFrames(w) :
              stack[w][k].owner = o /\ Len(stack[w]) > k

\* worker w is between `++pending` and `--pending` on task q
Running(w, q) ==
    \E k \in 1 .. Len(stack[w]) :
        /\ stack[w][k].kind = "worker"
        /\ stack[w][k].pc \in {"w_run", "w_finish"}
        /\ stack[w][k].task = q

(***************************************************************************)
(* C17: no worker begins the same task twice; a task is begun only while   *)
(* its func is not null; func, once null, stays null; a worker that has    *)
(* finished a task has left its func null.  Several workers can be inside  *)
(* the same task at once (the witness).                                    *)
(***************************************************************************)
C17_OncePerWorker ==
    /\ [](\A q \in DOMAIN tasks :
            /\ \A i, j \in 1 .. Len(tasks[q].started) :
                  i # j => tasks[q].started[i] # tasks[q].started[j]
            /\ \A i \in 1 .. Len(tasks[q].started) :
                  ~Running(tasks[q].started[i], q) => tasks[q].func = NULL)
    /\ [][\A q \in DOMAIN tasks \cap DOMAIN tasks' :
            /\ tasks'[q].started # tasks[q].started => tasks[q].func # NULL
            /\ tasks[q].func = NULL => tasks'[q].func = NULL]_vars

\* two workers are inside the same task, whose func nobody has cleared yet;
\* one of them is already in a recursive call
C17_Witness ==
    \E q \in DOMAIN tasks :
        /\ tasks[q].pending = 2 /\ Len(tasks[q].started) = 2
        /\ tasks[q].func # NULL
        /\ \A i \in 1 .. 2 : Running(tasks[q].started[i], q)
        /\ \E i \in 1 .. 2 : \E k \in HelperFrames(tasks[q].started[i]) :
              Len(stack[tasks[q].started[i]]) > k

\* the frames of sorted_solve that have received a Position, of any thread
ParFrames ==
    UNION {{[t |-> t, idx |-> k] : k \in {j \in 1 .. Len(stack[t]) : stack[t][j].kind = "par"}} :
           t \in Threads}

(***************************************************************************)
(* C18: the assertion of get_help_with never fails: a frame that is about   *)
(* to insert its task finds its Position absent from the map, the frames    *)
(* of sorted_solve alive at one time carry pairwise different Positions,    *)
(* and global_position never decreases.                                     *)
(***************************************************************************)
C18_AssertionHolds ==
    /\ [](/\ ~assert_failed
          /\ \A o \in ParFrames :
                stack[o.t][o.idx].pc = "publish"
                    => stack[o.t][o.idx].position \notin DOMAIN tasks
          /\ \A o1, o2 \in ParFrames :
                o1 # o2 => stack[o1.t][o1.idx].position # stack[o2.t][o2.idx].position)
    /\ [][global_position' >= global_position]_vars

\* three tasks in the map at once, two of them published at the same depth
\* by different threads
C18_Witness ==
    /\ Cardinality(DOMAIN tasks) >= 3
    /\ \E o1, o2 \in InGetHelpWith :
          /\ o1.t # o2.t
          /\ stack[o1.t][o1.idx].position.depth = stack[o2.t][o2.idx].position.depth
          /\ stack[o1.t][o1.idx].position # stack[o2.t][o2.idx].position

\* a frame without what other threads may touch: shared_i, the histories of
\* branches, tuples and pivot-skipped calls, and the wake-up from a wait on
\* the condition variable
StripFrame(f) ==
    IF IsSearch(f)
    THEN [f EXCEPT !.shared_i = 0, !.executed = << >>, !.tried = << >>, !.skips = 0,
                   !.pc = IF @ = "barrier_wait" THEN "barrier" ELSE @]
    ELSE IF f.kind = "worker"
    THEN [f EXCEPT !.pc = IF @ = "w_wait" THEN "w_top" ELSE @]
    ELSE f

\* what belongs to thread t alone: its locals, its current, its buffers and
\* its incumbent
Own(t) ==
    <<[k \in 1 .. Len(stack[t]) |-> StripFrame(stack[t][k])],
      thread_current[t], thread_vv[t], per_thread_incumbents[t]>>

\* the values a publishing frame holds for current, domains, the buffers and
\* the partner tuple
Live(o) ==
    [current |-> thread_current[o.t], domains |-> stack[o.t][o.idx].domains,
     vv |-> thread_vv[o.t], soluzione |-> stack[o.t][o.idx].soluzione]

(***************************************************************************)
(* C19: the closure of helper_function holds the values current, domains,  *)
(* the buffers and the partner tuple had when the task was published, and  *)
(* keeps them unchanged while the task exists; a helper starts from those  *)
(* values, not from the publisher's present ones; and no step changes what *)
(* belongs to two different threads, so a helper's step writes nothing of  *)
(* the publishing frame but shared_i.                                      *)
(***************************************************************************)
C19_HelperIsolated ==
    /\ [](\A o \in ParFrames :
            stack[o.t][o.idx].pc = "publish"
                => stack[o.t][o.idx].helper_function = Live(o))
    /\ [][\A o \in InGetHelpWith :
            (/\ o.idx <= Len(stack'[o.t])
             /\ stack'[o.t][o.idx].kind = "par"
             /\ stack'[o.t][o.idx].position = stack[o.t][o.idx].position)
                => stack'[o.t][o.idx].helper_function = stack[o.t][o.idx].helper_function]_vars
    /\ [][\A w \in Workers :
            (/\ stack[w] # << >> /\ Top(w).kind = "helper" /\ Top(w).pc = "h_start"
             /\ Len(stack'[w]) = Len(stack[w]) /\ stack'[w][Len(stack[w])].pc = "loop")
                => LET c == stack[Top(w).owner.t][Top(w).owner.idx].helper_function IN
                   /\ thread_current'[w] = c.current
                   /\ thread_vv'[w] = c.vv
                   /\ stack'[w][Len(stack[w])].domains = c.domains
                   /\ stack'[w][Len(stack[w])].soluzione = c.soluzione]_vars
    /\ [][\A t, u \in Threads :
            (t # u /\ stack[t] # << >> /\ stack[u] # << >>)
                => ~(Own(t)' # Own(t) /\ Own(u)' # Own(u))]_vars

\* a helper has just copied its closure while the publisher, already inside
\* main_function, holds another current, other buffers and another tuple
C19_Witness ==
    \E w \in Workers : \E k \in HelperFrames(w) :
        LET o == stack[w][k].owner
            c == stack[o.t][o.idx].helper_function
        IN /\ k = Len(stack[w]) /\ stack[w][k].pc = "loop" /\ stack[w][k].i = 1
           /\ stack[w][k].w0_index = 0
           /\ thread_current[w] = c.current /\ thread_vv[w] = c.vv
           /\ stack[w][k].soluzione = c.soluzione
           /\ thread_current[o.t] # c.current
           /\ thread_vv[o.t] # c.vv
           /\ stack[o.t][o.idx].soluzione # c.soluzione

(***************************************************************************)
(* C20: AtomicIncumbent.value never decreases, whatever the interleaving   *)
(* of the calls of update; a call returns true exactly when its own         *)
(* compare-and-exchange replaced a strictly smaller value by v; a call      *)
(* that returns false has stored nothing and has observed a value >= v;     *)
(* at the return of either, value >= v.  Every step leaves value as it was  *)
(* or takes it to what the one-step update gives.                           *)
(***************************************************************************)
C20_UpdateMonotone ==
    /\ [][global_incumbent' >= global_incumbent]_vars
    /\ [](\A t \in Threads :
            InUpdate(t, "done") =>
                /\ Top(t).ret <=> (Top(t).changed /\ Top(t).from < Top(t).v)
                /\ ~Top(t).ret => (~Top(t).changed /\ Top(t).cur_v >= Top(t).v)
                /\ global_incumbent >= Top(t).v)
    /\ [](\A t \in Threads :
            (stack[t] # << >> /\ Top(t).kind = "update" /\ Top(t).pc # "done")
                => ~Top(t).changed)
    /\ [][global_incumbent' # global_incumbent
            => \E t \in Threads :
                  /\ InUpdate(t, "cas") /\ stack'[t] # stack[t]
                  /\ stack'[t][1].pc = "done" /\ stack'[t][1].ret
                  /\ global_incumbent' = update(global_incumbent, Top(t).v)
                  /\ global_incumbent' = Top(t).v]_vars

\* a call has returned true having replaced a value other than the initial
\* 0, and a concurrent call of a smaller positive argument has returned
\* false on loading the value the first one stored
C20_Witness ==
    \E t, u \in Threads :
        /\ t # u
        /\ InUpdate(t, "done") /\ Top(t).ret /\ Top(t).from > 0
        /\ InUpdate(u, "done") /\ ~Top(u).ret /\ Top(u).v > 0
        /\ Top(u).cur_v = Top(t).v /\ Top(u).v < Top(t).v
        /\ global_incumbent = Top(t).v

\* a frame of sorted_solve or sorted_solve_nopar that has selected a domain
\* and fixed its pivot
HasSelected(f) == f.kind \in {"par", "nopar"} /\ f.pc \notin {"entry", "bound", "goal"}

(***************************************************************************)
(* C21: a call of sorted_solve or sorted_solve_nopar whose first statement *)
(* runs when abort_due_to_timeout is already true returns without          *)
(* selecting a domain.                                                     *)
(***************************************************************************)
C21_ReturnsAtEntry ==
    \A t \in Threads : \A k \in 1 .. Len(stack[t]) :
        (IsSearch(stack[t][k]) /\ stack[t][k].abort_at_entry) => ~HasSelected(stack[t][k])

\* thread t has read abort_due_to_timeout as true
Observed(t) == stack[t] # << >> /\ stack[t][1].kind \in {"worker", "mcs"} /\ stack[t][1].observed

(***************************************************************************)
(* C22: once a thread has read abort_due_to_timeout as true, no step       *)
(* changes its per-thread incumbent, and no entry of a call on that thread  *)
(* changes the shared incumbent value.                                     *)
(***************************************************************************)
C22_NoWriteAfterAbort ==
    [][\A t \in Threads :
          Observed(t) =>
              /\ per_thread_incumbents'[t] = per_thread_incumbents[t]
              /\ (AtEntry(t) /\ stack'[t] # stack[t]) => global_incumbent' = global_incumbent]_vars

(***************************************************************************)
(* C23: whenever a frame goes on with its partner loop, or has left it and *)
(* waits in get_help_with to return, `current` is what it was when the     *)
(* frame was entered: every tuple pushed since has been popped, also when  *)
(* a call below returned on abort.                                         *)
(***************************************************************************)
C23_CurrentRestored ==
    \A t \in Threads :
        (/\ stack[t] # << >> /\ IsSearch(Top(t))
         /\ Top(t).pc \in {"loop", "claim", "barrier", "barrier_wait"})
            => thread_current[t] = Top(t).current_at_entry

(***************************************************************************)
(* C24: when the main thread waits in timeout_thread.join(), the timer is  *)
(* never blocked in wait_until: it has ended, or it is past its loop, or   *)
(* it is about to read the flag, which is true; so the join does not       *)
(* depend on the deadline.  Under fair scheduling the timer thread always   *)
(* ends, and the join is always passed.                                     *)
(***************************************************************************)
C24_TimerJoined ==
    /\ [](IsMcs("timer_join") =>
            /\ timeout_thread # "wait"
            /\ timeout_thread \in {"check", "woken"} => abort_due_to_timeout)
    /\ [](Done => timeout_thread \in {"none", "done"})
    /\ <>(timeout_thread \in {"none", "done"})
    /\ (IsMcs("timer_join") ~> Done)

\* the main thread is in join and the timer, which was blocked in wait_until
\* before its deadline, has been taken out of it by notify_all
C24_Witness ==
    /\ IsMcs("timer_join") /\ timeout_thread = "woken" /\ ~aborted
    /\ abort_due_to_timeout

(***************************************************************************)
(* C25: the first statements of a call.  The per-thread incumbent is        *)
(* replaced by `current`, and current.size() published, exactly when         *)
(* current is strictly longer than the per-thread incumbent.  With           *)
(* bound = current.size() + calc_bound(domains), the call returns without    *)
(* branching when bound <= the shared incumbent value or bound < the goal,   *)
(* or, under big_first, when the shared incumbent value equals the goal;     *)
(* in every other case it goes on to the selection of a domain, and          *)
(* branches on the domain select_multidomain returns.                        *)
(***************************************************************************)
C25_BoundPrunes(f, cur) ==
    LET bound == Len(cur) + calc_bound(f.domains)
    IN bound <= global_incumbent \/ bound < f.matching_size_goal

\* the step is one of thread t's top frame
C25_Stepped(t) ==
    Len(stack'[t]) # Len(stack[t]) \/ stack'[t][Len(stack[t])] # Top(t)

C25_EntryAndPrune ==
    [][\A t \in Threads :
         (stack[t] # << >> /\ IsSearch(Top(t)) /\ C25_Stepped(t)) =>
            LET f == Top(t)
                cur == thread_current[t]
                mine == per_thread_incumbents[t]
                returned == Len(stack'[t]) < Len(stack[t])
                bd_idx == select_multidomain(f.domains, thread_vv[t][0], Len(cur))
            IN /\ (f.pc = "entry" /\ Len(mine) < Len(cur)) =>
                     /\ per_thread_incumbents'[t] = cur
                     /\ global_incumbent' = IF Len(cur) > global_incumbent THEN Len(cur)
                                            ELSE global_incumbent
               /\ (f.pc = "entry" /\ Len(mine) >= Len(cur)) =>
                     /\ per_thread_incumbents'[t] = mine
                     /\ global_incumbent' = global_incumbent
               /\ f.pc = "entry" => ~returned /\ stack'[t][Len(stack[t])].bd_idx = -1
               /\ (f.pc = "bound" /\ C25_BoundPrunes(f, cur)) => returned
               /\ (f.pc = "bound" /\ ~C25_BoundPrunes(f, cur) /\ arguments.big_first) =>
                     ~returned /\ stack'[t][Len(stack[t])].pc = "goal"
               /\ (f.pc = "goal" /\ global_incumbent = f.matching_size_goal) => returned
               /\ (/\ \/ f.pc = "goal" /\ global_incumbent # f.matching_size_goal
                      \/ f.pc = "bound" /\ ~C25_BoundPrunes(f, cur) /\ ~arguments.big_first
                   /\ bd_idx # -1) =>
                     /\ ~returned
                     /\ stack'[t][Len(stack[t])].bd_idx = bd_idx
                     /\ stack'[t][Len(stack[t])].pc \in {"publish", "loop"}]_vars

\* a call under big_first that made its tuple the thread's incumbent, passed
\* the bound test and now reads a shared incumbent value equal to the goal
C25_Witness ==
    \E t \in Threads :
        /\ stack[t] # << >> /\ IsSearch(Top(t)) /\ Top(t).pc = "goal"
        /\ thread_current[t] # << >>
        /\ per_thread_incumbents[t] = thread_current[t]
        /\ Top(t).bound > global_incumbent
        /\ global_incumbent = Top(t).matching_size_goal

(***************************************************************************)
(* C26: select_multidomain returns the index of the eligible multi-domain  *)
(* (every one, or under `connected` with a non-empty mapping only those     *)
(* with is_adjacent) whose score is least (the maximum, the minimum, the    *)
(* sum or the product of its K lengths, by arguments.heuristic), among      *)
(* equal scores the one whose graph-0 window holds the smallest vertex,     *)
(* then the lowest index; it returns -1 exactly when none is eligible.      *)
(***************************************************************************)
\* numbers too large for an int are kept as <<high, low>> in this base
C26_Base == INT_MAX \div TwoTo16 + 1

RECURSIVE C26_Product(_, _)
\* the product of len[0 .. n-1], exactly
C26_Product(len, n) ==
    IF n = 0 THEN <<0, 1>>
    ELSE LET p == C26_Product(len, n - 1)
             low == p[2] * len[n - 1]
         IN <<p[1] * len[n - 1] + low \div C26_Base, low % C26_Base>>

RECURSIVE C26_Sum(_, _)
C26_Sum(len, n) == IF n = 0 THEN 0 ELSE C26_Sum(len, n - 1) + len[n - 1]

C26_Score(bd) ==
    CASE arguments.heuristic = "min_max" -> <<0, Max({bd.len[i] : i \in NG})>>
      [] arguments.heuristic = "min_min" -> <<0, Min({bd.len[i] : i \in NG})>>
      [] arguments.heuristic = "min_sum" -> <<0, C26_Sum(bd.len, arguments.arg_num)>>
      [] arguments.heuristic = "min_product" -> C26_Product(bd.len, arguments.arg_num)

C26_Eligible(domains, cur_size) ==
    {i \in Idx(Len(domains)) :
        ~arguments.connected \/ cur_size = 0 \/ domains[i + 1].is_adjacent}

\* the key by which the claim orders the multi-domains
C26_Key(domains, left, i) ==
    LET bd == domains[i + 1]
        s == C26_Score(bd)
    IN <<s[1], s[2], Min({INT_MAX} \cup {left[bd.sets[0] + j] : j \in Idx(bd.len[0])}), i>>

RECURSIVE C26_Less(_, _, _)
\* lexicographic order of two keys, from component p on
C26_Less(a, b, p) ==
    IF p > Len(a) THEN FALSE
    ELSE IF a[p] # b[p] THEN a[p] < b[p]
    ELSE C26_Less(a, b, p + 1)

C26_Best(domains, left, cur_size) ==
    LET E == C26_Eligible(domains, cur_size) IN
    IF E = {} THEN -1
    ELSE CHOOSE i \in E : \A j \in E \ {i} :
            C26_Less(C26_Key(domains, left, i), C26_Key(domains, left, j), 1)

C26_SelectsLeast ==
    [][\A t \in Threads :
         (/\ stack[t] # << >> /\ IsSearch(Top(t)) /\ C25_Stepped(t)
          /\ \/ Top(t).pc = "goal" /\ global_incumbent # Top(t).matching_size_goal
             \/ /\ Top(t).pc = "bound" /\ ~arguments.big_first
                /\ ~C25_BoundPrunes(Top(t), thread_current[t])) =>
            LET best == C26_Best(Top(t).domains, thread_vv[t][0], Len(thread_current[t]))
            IN IF best = -1 THEN Len(stack'[t]) < Len(stack[t])
               ELSE /\ Len(stack'[t]) = Len(stack[t])
                    /\ stack'[t][Len(stack[t])].bd_idx = best]_vars

(***************************************************************************)
(* C27: for every old multi-domain filter_domains emits the non-neighbour   *)
(* child exactly when every noedge_len[i] > 0, and a neighbour child only   *)
(* when every edge_len[i] > 0, whatever the product of the K lengths is.    *)
(***************************************************************************)
\* a frame that has filtered its domains for the tuple f.soluzione
Filtered(t) == stack[t] # << >> /\ IsSearch(Top(t)) /\ Top(t).pc = "abort_check"

\* the neighbours, in graph i, of the tuple's vertex within a window
EdgePart(vv, bd, vertex, i) ==
    {u \in Window(vv, bd, i) : gi_sorted[i].adjmat[vertex[i]][u] # 0}

edge_len(vv, bd, vertex) == [i \in NG |-> Cardinality(EdgePart(vv, bd, vertex, i))]

\* a new multi-domain lies in the neighbour part of an old one
InEdgePart(c, bd, e) ==
    c.len[0] > 0 /\ bd.sets[0] <= c.sets[0] /\ c.sets[0] < bd.sets[0] + e[0]

C27_EmptinessByLengths ==
    \A t \in Threads : Filtered(t) =>
        LET f == Top(t) IN
        \A k \in 1 .. Len(f.domains) :
            LET bd == f.domains[k]
                e == edge_len(thread_vv[t], bd, f.soluzione)
                noedge == Multidomain([i \in NG |-> bd.sets[i] + e[i]],
                                      [i \in NG |-> bd.len[i] - e[i]], bd.is_adjacent)
            IN /\ (\A i \in NG : bd.len[i] - e[i] > 0)
                     <=> (\E j \in 1 .. Len(f.new_domains) : f.new_domains[j] = noedge)
               /\ (\E j \in 1 .. Len(f.new_domains) : InEdgePart(f.new_domains[j], bd, e))
                     => (\A i \in NG : e[i] > 0)

(***************************************************************************)
(* C28: without multiway, filter_domains emits for each old multi-domain   *)
(* at most two children and nothing else: the non-neighbour child, which    *)
(* starts at start[i] + edge_len[i], has the lengths noedge_len[i] and      *)
(* inherits is_adjacent, and the neighbour child, which starts at start[i], *)
(* has the lengths edge_len[i] and has is_adjacent set.  After the call the *)
(* first edge_len[i] slots of each old window hold exactly its vertices     *)
(* adjacent to vtx[i].                                                      *)
(***************************************************************************)
\* the children the claim allows for an old multi-domain
noedge_child(bd, e) ==
    Multidomain([i \in NG |-> bd.sets[i] + e[i]], [i \in NG |-> bd.len[i] - e[i]], bd.is_adjacent)

edge_child(bd, e) == Multidomain(bd.sets, e, TRUE)

C28_PlainChildren ==
    \A t \in Threads : (Filtered(t) /\ ~multiway) =>
        LET f == Top(t)
            vv == thread_vv[t]
        IN /\ \A j \in 1 .. Len(f.new_domains) : \E k \in 1 .. Len(f.domains) :
                 LET e == edge_len(vv, f.domains[k], f.soluzione)
                 IN f.new_domains[j] \in {noedge_child(f.domains[k], e), edge_child(f.domains[k], e)}
           /\ \A j1, j2 \in 1 .. Len(f.new_domains) :
                 f.new_domains[j1] = f.new_domains[j2] => j1 = j2
           /\ \A k \in 1 .. Len(f.domains) :
                 LET bd == f.domains[k]
                     e == edge_len(vv, bd, f.soluzione)
                 IN \A i \in NG : \A j \in Idx(bd.len[i]) :
                       (j < e[i]) <=> (gi_sorted[i].adjmat[f.soluzione[i]][vv[i][bd.sets[i] + j]] # 0)

\* a call that emitted both children of one old multi-domain, in a frame
\* whose old multi-domain was not marked adjacent
C28_Witness ==
    \E t \in Threads :
        /\ Filtered(t) /\ ~multiway
        /\ \E k \in 1 .. Len(Top(t).domains) :
              LET bd == Top(t).domains[k]
                  e == edge_len(thread_vv[t], bd, Top(t).soluzione)
              IN /\ ~bd.is_adjacent
                 /\ \E j1, j2 \in 1 .. Len(Top(t).new_domains) :
                       /\ Top(t).new_domains[j1] = noedge_child(bd, e)
                       /\ Top(t).new_domains[j2] = edge_child(bd, e)
                       /\ \E i \in NG : e[i] > 1

(***************************************************************************)
(* C29: with multiway, for each old multi-domain filter_domains emits       *)
(* exactly one neighbour child for every adjacency word that occurs in the  *)
(* neighbour part of all K windows, holding in each graph all and only the  *)
(* vertices of the neighbour part with that word, and no neighbour child    *)
(* for a word missing from the neighbour part of some window.               *)
(***************************************************************************)
\* the adjacency word of u towards the tuple's vertex in graph i
Word(vertex, i, u) == gi_sorted[i].adjmat[vertex[i]][u]

\* the words that occur in the neighbour part of every window of bd
CommonWords(vv, bd, vertex) ==
    {w \in {Word(vertex, 0, u) : u \in EdgePart(vv, bd, vertex, 0)} :
        \A i \in NG : \E u \in EdgePart(vv, bd, vertex, i) : Word(vertex, i, u) = w}

\* c holds, in every graph, the vertices of the neighbour part of bd with word w
HoldsWord(vv, c, bd, vertex, w) ==
    \A i \in NG :
        Window(vv, c, i) = {u \in EdgePart(vv, bd, vertex, i) : Word(vertex, i, u) = w}

C29_MultiwayChildren ==
    \A t \in Threads : (Filtered(t) /\ multiway) =>
        LET f == Top(t)
            vv == thread_vv[t]
        IN \A k \in 1 .. Len(f.domains) :
              LET bd == f.domains[k]
                  e == edge_len(vv, bd, f.soluzione)
                  children == {j \in 1 .. Len(f.new_domains) : InEdgePart(f.new_domains[j], bd, e)}
              IN /\ \A w \in CommonWords(vv, bd, f.soluzione) :
                       Cardinality({j \in children :
                                       HoldsWord(vv, f.new_domains[j], bd, f.soluzione, w)}) = 1
                 /\ \A j \in children :
                       /\ f.new_domains[j].is_adjacent
                       /\ \E w \in CommonWords(vv, bd, f.soluzione) :
                             HoldsWord(vv, f.new_domains[j], bd, f.soluzione, w)

(***************************************************************************)
(* C30: after filter_domains for the tuple vtx, in every emitted            *)
(* multi-domain the vertices of all K windows have adjacency words towards  *)
(* vtx of one class (the same word with multiway; otherwise all zero or all *)
(* non-zero), and no emitted window holds a vertex that is used in          *)
(* `current` or in vtx.                                                     *)
(***************************************************************************)
\* the adjacency words towards the tuple of the vertices of all windows of c
WindowWords(vv, c, vertex) ==
    UNION {{Word(vertex, i, u) : u \in Window(vv, c, i)} : i \in NG}

C30_OneClass ==
    \A t \in Threads : Filtered(t) =>
        \A j \in 1 .. Len(Top(t).new_domains) :
            LET W == WindowWords(thread_vv[t], Top(t).new_domains[j], Top(t).soluzione)
            IN IF multiway THEN Cardinality(W) = 1
               ELSE W = {0} \/ 0 \notin W

C30_Unused ==
    \A t \in Threads : Filtered(t) =>
        \A j \in 1 .. Len(Top(t).new_domains) : \A i \in NG :
            \A u \in Window(thread_vv[t], Top(t).new_domains[j], i) :
                /\ u # Top(t).soluzione[i]
                /\ \A m \in 1 .. Len(thread_current[t]) : thread_current[t][m][i] # u

C30_FilterInvariants == C30_OneClass /\ C30_Unused

(***************************************************************************)
(* C31: every per-graph vertex buffer of a thread stays a permutation of    *)
(* the initial buffer; the windows of the multi-domains of one domain list  *)
(* are pairwise disjoint in every graph; the windows a frame hands to a     *)
(* recursive call lie inside windows of its own list; and while the call    *)
(* runs, every window of the caller's list holds the set of vertices it     *)
(* held when the call was made.                                             *)
(***************************************************************************)
\* the buffer positions of window i of a multi-domain
Slots(d, i) == {d.sets[i] + j : j \in Idx(d.len[i])}

IsPermutation(arr, orig) ==
    /\ DOMAIN arr = DOMAIN orig
    /\ {arr[j] : j \in DOMAIN arr} = {orig[j] : j \in DOMAIN orig}
    /\ \A j1, j2 \in DOMAIN arr : arr[j1] = arr[j2] => j1 = j2

DisjointWindows(domains) ==
    \A k1, k2 \in 1 .. Len(domains) : k1 # k2 =>
        \A i \in NG : Slots(domains[k1], i) \cap Slots(domains[k2], i) = {}

InsideSome(c, domains) ==
    \E k \in 1 .. Len(domains) : \A i \in NG : Slots(c, i) \subseteq Slots(domains[k], i)

C31_BuffersAndWindows ==
    /\ \A t \in Threads : thread_vv[t] # << >> =>
          \A i \in NG : IsPermutation(thread_vv[t][i], initial_domains(gi_sorted).vtx_buf[i])
    /\ \A t \in Threads : \A k \in 1 .. Len(stack[t]) :
          LET f == stack[t][k] IN
          IsSearch(f) =>
             /\ DisjointWindows(f.domains)
             /\ DisjointWindows(f.new_domains)
             /\ \A j \in 1 .. Len(f.new_domains) : InsideSome(f.new_domains[j], f.domains)
             /\ (f.pc = "call" /\ k < Len(stack[t])) =>
                   \A j \in 1 .. Len(stack[t][k + 1].domains) :
                      InsideSome(stack[t][k + 1].domains[j], f.domains)
             /\ (f.pc = "call" /\ k < Len(stack[t])) =>
                   \A j \in 1 .. Len(f.domains) : \A i \in NG :
                      Window(thread_vv[t], f.domains[j], i) = f.windows_at_call[j][i]

\* a frame waiting in a recursive call, one of whose windows is no longer in
\* the increasing order of the initial buffers: it has been reordered
C31_Witness ==
    \E t \in Threads : \E k \in 1 .. (Len(stack[t]) - 1) :
        /\ IsSearch(stack[t][k]) /\ stack[t][k].pc = "call"
        /\ stack[t][k + 1].pc = "loop"
        /\ stack[t][k + 1].domains # << >>
        /\ \E j \in 1 .. Len(stack[t][k].domains) : \E i \in NG :
              /\ stack[t][k].domains[j].len[i] >= 2
              /\ \E a, b \in Slots(stack[t][k].domains[j], i) :
                    a < b /\ thread_vv[t][i][a] > thread_vv[t][i][b]

(***************************************************************************)
(* C32: within one frame, on every non-pivot axis and for each choice on    *)
(* the axes before it, solve_other_graphs offers the vertices of the        *)
(* original window in strictly increasing order, each once; it returns      *)
(* false exactly when the window holds no vertex greater than the previous  *)
(* pick, and by then every vertex of the window has been offered.           *)
(***************************************************************************)
\* a frame that has fixed its pivot
Branching(f) == IsSearch(f) /\ f.window_at_fix # << >>

Increasing(seq) == \A a, b \in 1 .. Len(seq) : a < b => seq[a] < seq[b]

\* the window of axis pos with its reserved slot, as solve_other_graphs reads it
ActiveWindow(vv, bd, pos) == {vv[pos][bd.sets[pos] + j] : j \in 0 .. bd.len[pos]}

C32_PartnersInOrder ==
    \A t \in Threads : \A k \in 1 .. Len(stack[t]) :
        LET f == stack[t][k] IN
        Branching(f) =>
           /\ \A i \in NG \ {f.sorted_vv_idx[0]} :
                 /\ Increasing(f.offered[i])
                 /\ {f.offered[i][a] : a \in 1 .. Len(f.offered[i])} \subseteq f.window_at_fix[i]
                 /\ f.soluzione[i] # -1 =>
                       /\ f.offered[i] # << >>
                       /\ f.soluzione[i] = f.offered[i][Len(f.offered[i])]
                       /\ \A u \in f.window_at_fix[i] :
                             u <= f.soluzione[i] =>
                                \E a \in 1 .. Len(f.offered[i]) : f.offered[i][a] = u
                 /\ (f.soluzione[i] = -1 /\ f.offered[i] # << >>) =>
                       {f.offered[i][a] : a \in 1 .. Len(f.offered[i])} = f.window_at_fix[i]
           /\ (k = Len(stack[t]) /\ f.pc = "loop" /\ f.i > 0) =>
                 LET pos == f.sorted_vv_idx[f.i]
                     bd == f.domains[f.bd_idx + 1]
                     r == solve_other_graphs(thread_vv[t], pos, bd, f.soluzione[pos])
                     greater == {u \in ActiveWindow(thread_vv[t], bd, pos) : u > f.soluzione[pos]}
                 IN /\ ActiveWindow(thread_vv[t], bd, pos) = f.window_at_fix[pos]
                    /\ r.ok <=> greater # {}
                    /\ r.ok => r.w = Min(greater)

\* a frame that has left its partner loop after offering a window of three
\* or more vertices, having made recursive calls in between
C32_Witness ==
    \E t \in Threads : \E k \in 1 .. Len(stack[t]) :
        /\ Branching(stack[t][k]) /\ stack[t][k].pc = "skipcall"
        /\ \E i \in NG \ {stack[t][k].sorted_vv_idx[0]} :
              /\ Len(stack[t][k].offered[i]) >= 3
              /\ stack[t][k].soluzione[i] = -1

(***************************************************************************)
(* C33: the pivot of a branching frame, and the windows of its selected     *)
(* domain during and after the enumeration                                  *)
(***************************************************************************)
\* a frame that has fixed its pivot and still holds its domain list
HoldsPivot(f) == Branching(f) /\ f.domains # << >>

\* the frame at index k of thread t has just started its pivot-skipped call:
\* the callee is at its first statement
SkipsPivot(t, k) ==
    /\ k < Len(stack[t]) /\ Branching(stack[t][k]) /\ stack[t][k].pc = "skipcall"
    /\ stack[t][k + 1].pc = "entry"

\* C33: in every frame that has fixed its pivot, the pivot is the smallest
\* vertex the window of axis perm[0] of the selected domain held at frame
\* entry, that window now holds the other vertices of it, and every window
\* of the selected domain is one shorter than at entry; and when the frame
\* leaves its partner loop for the pivot-skipped call, the list it passes on
\* is the frame's list without the selected domain if the perm[0] window held
\* one vertex at entry, and otherwise the frame's list with the non-pivot
\* windows of the selected domain back at their entry lengths and the
\* perm[0] window one shorter than at entry.
C33_PivotAndWindows ==
    \A t \in Threads : \A k \in 1 .. Len(stack[t]) :
        LET f == stack[t][k]  p == f.sorted_vv_idx[0]  b == f.bd_idx + 1 IN
        /\ HoldsPivot(f) =>
              /\ f.soluzione[p] = Min(f.window_at_fix[p])
              /\ Window(thread_vv[t], f.domains[b], p) = f.window_at_fix[p] \ {f.soluzione[p]}
              /\ \A i \in NG : f.domains[b].len[i] = Cardinality(f.window_at_fix[i]) - 1
        /\ SkipsPivot(t, k) =>
              LET held == f.domains_at_skip  passed == stack[t][k + 1].domains IN
              IF Cardinality(f.window_at_fix[p]) = 1
              THEN /\ Len(passed) = Len(held) - 1
                   /\ {passed[j] : j \in 1 .. Len(passed)} =
                         {held[j] : j \in (1 .. Len(held)) \ {b}}
              ELSE /\ Len(passed) = Len(held)
                   /\ \A j \in (1 .. Len(passed)) \ {b} : passed[j] = held[j]
                   /\ passed[b].sets = held[b].sets
                   /\ passed[b].is_adjacent = held[b].is_adjacent
                   /\ \A i \in NG :
                         passed[b].len[i] = Cardinality(f.window_at_fix[i])
                                              - (IF i = p THEN 1 ELSE 0)

\* a frame is in its pivot-skipped call after its perm[0] window, of two
\* vertices at entry, lost the pivot, while another frame of the thread is in
\* the pivot-skipped call that dropped its selected domain
C33_Witness ==
    \E t \in Threads : \E k, m \in 1 .. Len(stack[t]) :
        /\ k # m
        /\ Branching(stack[t][k]) /\ stack[t][k].pc = "skipcall"
        /\ Cardinality(stack[t][k].window_at_fix[stack[t][k].sorted_vv_idx[0]]) = 2
        /\ Branching(stack[t][m]) /\ stack[t][m].pc = "skipcall"
        /\ Cardinality(stack[t][m].window_at_fix[stack[t][m].sorted_vv_idx[0]]) = 1

(***************************************************************************)
(* C34: the pivot-skipped call, and the tuples a frame tries for its pivot  *)
(***************************************************************************)
\* the partner tuples of a frame's pivot: the pivot on axis perm[0] and on
\* every other axis a vertex the selected window held when the pivot was fixed
PivotTuples(f) ==
    LET p == f.sorted_vv_idx[0] IN
    {s \in [NG -> UNION {f.window_at_fix[i] : i \in NG}] :
        /\ s[p] = f.soluzione[p]
        /\ \A i \in NG \ {p} : s[i] \in f.window_at_fix[i]}

\* a frame that owns its enumeration: sorted_solve or sorted_solve_nopar
OwnsPivot(f) == Branching(f) /\ f.kind \in {"par", "nopar"}

\* the enumeration for the pivot of frame f is over: a frame that published no
\* task is in its pivot-skipped call, a frame that published one is in the
\* barrier with no helper execution pending
PivotDone(f) ==
    \/ ~f.published /\ f.pc = "skipcall"
    \/ /\ f.published /\ f.pc \in {"barrier", "barrier_wait"}
       /\ f.position \in DOMAIN tasks /\ tasks[f.position].pending = 0

\* C34: for its pivot a frame of sorted_solve or sorted_solve_nopar, with the
\* helper executions of its task, pushes only partner tuples of the pivot and
\* none twice, and makes at most one pivot-skipped call; with no abort, the
\* pivot-skipped call starts with `current` as it was at frame entry and a
\* domain list in which no window of graph perm[0] holds the pivot, and when
\* the enumeration for the pivot is over every partner tuple of the pivot
\* has been pushed once and the pivot-skipped call has been made once.
C34_SkipOnceTuplesOnce ==
    \A t \in Threads : \A k \in 1 .. Len(stack[t]) :
        LET f == stack[t][k]  p == f.sorted_vv_idx[0] IN
        /\ OwnsPivot(f) =>
              /\ DOMAIN f.tried \subseteq PivotTuples(f)
              /\ \A s \in DOMAIN f.tried : f.tried[s] = 1
              /\ f.skips <= 1
        /\ (SkipsPivot(t, k) /\ ~abort_due_to_timeout) =>
              /\ thread_current[t] = f.current_at_entry
              /\ \A j \in 1 .. Len(stack[t][k + 1].domains) :
                    f.soluzione[p] \notin Window(thread_vv[t], stack[t][k + 1].domains[j], p)
        /\ (OwnsPivot(f) /\ PivotDone(f) /\ ~abort_due_to_timeout) =>
              /\ DOMAIN f.tried = PivotTuples(f)
              /\ f.skips = 1

\* a frame of three graphs with at least four partner tuples has had all of
\* them pushed and is in its pivot-skipped call
C34_Witness ==
    \E t \in Threads : \E k \in 1 .. Len(stack[t]) :
        /\ arguments.arg_num = 3 /\ ~abort_due_to_timeout
        /\ OwnsPivot(stack[t][k]) /\ stack[t][k].pc = "skipcall"
        /\ Cardinality(PivotTuples(stack[t][k])) >= 4
        /\ DOMAIN stack[t][k].tried = PivotTuples(stack[t][k])

(***************************************************************************)
(* C35: tasks are published only down to depth split_levels                 *)
(***************************************************************************)
\* the frames of thread t whose task is in the map
OwnTasks(t) ==
    {k \in 1 .. Len(stack[t]) :
        /\ IsSearch(stack[t][k]) /\ stack[t][k].published
        /\ stack[t][k].position \in DOMAIN tasks}

\* C35: a frame that publishes or has published a task, and the frame a task
\* of the map refers to, is at depth <= split_levels; a sorted_solve frame
\* below that depth never goes through get_help_with; the frame called from
\* a frame at depth > split_levels is a sorted_solve_nopar frame; and no
\* thread has more than split_levels + 1 tasks of its own in the map.
C35_PublishOnlyAbove ==
    /\ \A q \in DOMAIN tasks :
          tasks[q].func # NULL => stack[tasks[q].func.t][tasks[q].func.idx].depth <= split_levels
    /\ \A t \in Threads :
          /\ \A k \in 1 .. Len(stack[t]) :
                LET f == stack[t][k] IN
                IsSearch(f) =>
                   /\ (f.published \/ f.pc \in {"publish", "barrier", "barrier_wait"})
                         => f.depth <= split_levels
                   /\ (f.depth > split_levels /\ k < Len(stack[t]))
                         => stack[t][k + 1].kind = "nopar"
          /\ Cardinality(OwnTasks(t)) <= split_levels + 1

\* the main thread has split_levels + 1 tasks in the map while a
\* sorted_solve frame at depth split_levels + 1, not published, has called
\* sorted_solve_nopar
C35_Witness ==
    \E k \in 1 .. Len(stack[0]) - 1 :
        /\ Cardinality(OwnTasks(0)) = split_levels + 1
        /\ stack[0][k].kind = "par" /\ stack[0][k].depth = split_levels + 1
        /\ Branching(stack[0][k]) /\ ~stack[0][k].published
        /\ stack[0][k + 1].kind = "nopar"

(***************************************************************************)
(* C36: the big_first loop of mcs()                                         *)
(***************************************************************************)
\* the frame of mcs() on the main thread
McsOf(st) == st[MainThread][1]

\* a search of mcs() is at the first statement of its root call
AtRoot ==
    /\ Len(stack[MainThread]) = 2
    /\ IsSearch(Top(MainThread)) /\ Top(MainThread).depth = 0 /\ Top(MainThread).pc = "entry"

\* the break test of the big_first loop held at the end of a search
Broke(e) == e.value = e.goal \/ e.abort

\* C36: under big_first the searches have the goals n0, n0 - 1, ..., each
\* the goal before less 1 and none below 1; a search is started only after
\* searches at whose end the shared incumbent differed from the goal and
\* abort was not set, and after a search at whose end the shared incumbent
\* equals the goal or abort is set no further search is started; every
\* search starts from the initial domains and buffers, an empty `current`,
\* empty per-thread incumbents, an empty task map and a pool whose workers
\* have run no task, the workers of the pool before having all returned.
C36_BigFirstGoals ==
    (arguments.big_first /\ stack[MainThread] # << >>) =>
        LET m == McsOf(stack)  n0 == gi_sorted[0].n  done == Len(m.ended) IN
        /\ \A j \in 1 .. done : m.ended[j].goal = n0 - (j - 1) /\ m.ended[j].goal >= 1
        /\ \A j \in 1 .. (done - 1) : ~Broke(m.ended[j])
        /\ m.pc \in {"search", "kill", "join"} =>
              /\ m.goal = n0 - done /\ m.goal >= 1 /\ m.k = done
              /\ \A j \in 1 .. done : ~Broke(m.ended[j])
        /\ m.pc = "start" =>
              /\ m.k = done
              /\ \A j \in 1 .. done : ~Broke(m.ended[j])
              /\ \A w \in Workers : stack[w] = << >>
        /\ m.pc \notin {"start", "search", "kill", "join"} =>
              \/ n0 = 0 /\ done = 0
              \/ done >= 1 /\ Broke(m.ended[done])
              \/ done = n0 /\ m.ended[done].goal = 1
        /\ AtRoot =>
              LET d == initial_domains(gi_sorted) IN
              /\ Top(MainThread).matching_size_goal = m.goal
              /\ Top(MainThread).domains = d.domains /\ thread_vv[MainThread] = d.vtx_buf
              /\ thread_current[MainThread] = << >> /\ tasks = EmptyTasks
              /\ \A t \in Threads : per_thread_incumbents[t] = << >>
              /\ \A w \in Workers :
                    Len(stack[w]) = 1 /\ Top(w).kind = "worker" /\ Top(w).task = NULL

\* the second iteration of the loop is running with goal n0 - 1 = 2 and a
\* helper worker of its pool is at work
C36_Witness ==
    /\ arguments.big_first
    /\ stack[MainThread] # << >> /\ McsOf(stack).kind = "mcs" /\ McsOf(stack).pc = "search"
    /\ McsOf(stack).k = 1 /\ McsOf(stack).goal = 2 /\ gi_sorted[0].n = 3
    /\ \E w \in Workers : Len(stack[w]) > 1

(***************************************************************************)
(* C37: the initial multi-domains                                           *)
(***************************************************************************)
\* the vertex labels that occur in every graph handed to mcs()
SharedLabels ==
    {l \in {gi_sorted[0].label[v] : v \in Idx(gi_sorted[0].n)} :
        \A i \in NG : \E v \in Idx(gi_sorted[i].n) : gi_sorted[i].label[v] = l}

\* the vertices of graph i with label l
Labelled(i, l) == {v \in Idx(gi_sorted[i].n) : gi_sorted[i].label[v] = l}

\* C37: the domain list of a root call has one multi-domain for each label
\* that occurs in all K graphs and no other, each with is_adjacent false and
\* with its window of graph i holding exactly the vertices of graph i with
\* that label; the windows of two multi-domains are disjoint in every
\* graph; and when no label occurs in all graphs the list is empty and mcs()
\* returns the empty mapping.
C37_InitialDomains ==
    /\ AtRoot =>
          LET d == Top(MainThread).domains  vv == thread_vv[MainThread] IN
          /\ Len(d) = Cardinality(SharedLabels)
          /\ \A l \in SharedLabels : \E j \in 1 .. Len(d) :
                \A i \in NG : Window(vv, d[j], i) = Labelled(i, l)
          /\ \A j \in 1 .. Len(d) :
                /\ ~d[j].is_adjacent
                /\ \A i \in NG : d[j].len[i] = Cardinality(Window(vv, d[j], i))
          /\ \A j, m \in 1 .. Len(d) : \A i \in NG :
                j # m => Window(vv, d[j], i) \cap Window(vv, d[m], i) = {}
          /\ SharedLabels = {} => d = << >>
    /\ (Returned /\ SharedLabels = {}) => incumbent = << >>

\* a root call on two graphs that share two labels, the first graph holding
\* two vertices of one of them and the second graph one
C37_Witness ==
    /\ AtRoot /\ Cardinality(SharedLabels) = 2
    /\ \E l \in SharedLabels :
          Cardinality(Labelled(0, l)) = 2 /\ Cardinality(Labelled(1, l)) = 1

(***************************************************************************)
(* C38: the shared incumbent value and the mappings that are kept           *)
(***************************************************************************)
\* the sizes of the mappings held by the threads and by mcs()
HeldSizes == {Len(per_thread_incumbents[t]) : t \in Threads} \cup {Len(incumbent)}

\* C38: the value of the shared incumbent never exceeds the size of the
\* largest mapping held by a thread of the running search or by mcs(); when
\* mcs() selects among the per-thread incumbents, after the workers have
\* returned, the value is the size of the largest mapping held; and when
\* mcs() returns, the mapping it returns has as many tuples as the shared
\* incumbent says, with or without abort and big_first.
C38_ValueIsHeld ==
    /\ global_incumbent <= Max(HeldSizes)
    /\ (IsMcs("join") /\ \A w \in Workers : stack[w] = << >>) =>
          global_incumbent = Max(HeldSizes)
    /\ Returned => Len(incumbent) = global_incumbent

\* mcs() returns under big_first after an abort, with a mapping of two
\* tuples that a helper worker found
C38_Witness ==
    /\ Returned /\ arguments.big_first /\ abort_due_to_timeout
    /\ Len(incumbent) = 2 /\ Len(per_thread_incumbents[MainThread]) < 2

(***************************************************************************)
(* C39: no multi-domain with an empty window reaches a call                 *)
(***************************************************************************)
\* every window of the multi-domain holds a vertex
NonEmpty(bd) == \A i \in NG : bd.len[i] >= 1

\* C39: a frame of sorted_solve or sorted_solve_nopar that has not yet
\* selected holds only multi-domains whose K windows all have a vertex, and
\* so does every frame for the multi-domains it did not select; the windows
\* of a selected multi-domain all held a vertex when the pivot was fixed, so
\* that find_min_value had a vertex to return and index_of_next_smallest a
\* window of at least one slot to scan.
C39_NoEmptyWindow ==
    \A t \in Threads : \A k \in 1 .. Len(stack[t]) :
        LET f == stack[t][k] IN
        (IsSearch(f) /\ f.pc # "h_start") =>
           /\ ~Branching(f) => \A j \in 1 .. Len(f.domains) : NonEmpty(f.domains[j])
           /\ Branching(f) =>
                 /\ \A j \in (1 .. Len(f.domains)) \ {f.bd_idx + 1} : NonEmpty(f.domains[j])
                 /\ \A i \in NG : f.window_at_fix[i] # {}
                 /\ f.domains # << >> => \A i \in NG : f.domains[f.bd_idx + 1].len[i] >= 0

\* below a pivot-skipped call that kept the selected multi-domain with its
\* lengths restored, a call is entered with the children of a filter, among
\* them a no-edge child
C39_Witness ==
    \E t \in Threads : \E k \in 2 .. Len(stack[t]) - 1 :
        /\ Branching(stack[t][k - 1]) /\ stack[t][k - 1].pc = "skipcall"
        /\ Cardinality(stack[t][k - 1].window_at_fix[stack[t][k - 1].sorted_vv_idx[0]]) >= 2
        /\ Branching(stack[t][k]) /\ stack[t][k].pc = "call"
        /\ stack[t][k + 1].pc = "entry" /\ Len(stack[t][k + 1].domains) >= 2
        /\ \E j \in 1 .. Len(stack[t][k + 1].domains) : ~stack[t][k + 1].domains[j].is_adjacent

(***************************************************************************)
(* C40: no thread stays blocked in the pool                                 *)
(***************************************************************************)
\* thread t is blocked on the condition variable: in the barrier of
\* get_help_with or in the idle wait of a worker
InBarrierWait(t) == t \in Threads /\ stack[t] # << >> /\ Top(t).pc = "barrier_wait"
InIdleWait(t) == t \in Threads /\ stack[t] # << >> /\ Top(t).pc = "w_wait"
Blocked(t) == InBarrierWait(t) \/ InIdleWait(t)

\* C40: a thread blocked in the barrier of get_help_with has a task in the
\* map whose pending count is not 0; a worker blocked in its idle wait sees
\* finish unset and no task whose func is set; and under fair scheduling
\* every blocked thread is unblocked later, also when the task was
\* published by a worker and when kill_workers runs while a worker is about
\* to wait.
C40_DeadlockFree ==
    /\ [](\A t \in Threads :
            /\ InBarrierWait(t) =>
                  /\ Top(t).position \in DOMAIN tasks
                  /\ tasks[Top(t).position].pending > 0
            /\ InIdleWait(t) =>
                  /\ ~finish
                  /\ \A q \in DOMAIN tasks : tasks[q].func = NULL)
    /\ \A t \in 0 .. MaxHelpers : Blocked(t) ~> ~Blocked(t)

\* the main thread is blocked in the barrier of the root task while the
\* worker that runs its helper_function has published a task of its own
C40_Witness ==
    /\ InBarrierWait(MainThread) /\ Top(MainThread).depth = 0
    /\ \E w \in Workers : OwnTasks(w) # {}
=============================================================================
